---- MODULE Spec2Model ----
(***************************************************************************)
(* egos-2000 core: process table and scheduler (grass/kernel.c,            *)
(* grass/process.c, grass/grass.c), system call interface                  *)
(* (grass/syscall.c), software TLB (earth/cpu_mmu.c) and paging device     *)
(* (earth/dev_page.c).                                                     *)
(*                                                                         *)
(* The machine is a uniprocessor and a trap handler runs with interrupts   *)
(* disabled, so every handler is one atomic action.  A handler is written  *)
(* as a function from a machine-state record to a machine-state record;    *)
(* FATAL (a halt) and a blocked pthread_mutex_lock stop the handler where  *)
(* they happen: every later step of the handler is skipped.                *)
(***************************************************************************)
EXTENDS Integers, Sequences, FiniteSets, TLC

\* ------------------------------------------------------------------ sizes
\* Table sizes are scaled down: the program has 16 PCB entries, 256 frames,
\* 28 cache slots and 1024 message bytes.
MAX_NPROCESS == 3
NFRAMES == 3
ARTY_CACHED_NFRAMES == 2
SYSCALL_MSG_LEN == 1
\* proc_alloc is not called once proc_nprocs has reached MaxPid
MaxPid == 6
\* A run is a messaging run (up to MaxCalls system calls, one proc_free), a
\* spawning run (up to MaxFrees proc_free calls, one system call) or a
\* preempting run (up to MaxCalls system calls and two proc_free calls, which
\* lets a process of pid GPID_SHELL take part; no ctrl-C, one message).
MaxCalls == 3
MaxFrees == 3
\* timer interrupts in a row that are counted
MaxTicks == 3

\* pids of the servers (egos.h / servers.h)
GPID_PROCESS == 1
GPID_SHELL == 4
GPID_USER_START == 5

\* process status (process.h), in declaration order
PROC_UNUSED == 0
PROC_LOADING == 1
PROC_READY == 2
PROC_RUNNING == 3
PROC_RUNNABLE == 4
PROC_WAIT_TO_SEND == 5
PROC_WAIT_TO_RECV == 6

\* syscall type (syscall.h), in declaration order
SYS_UNUSED == 0
SYS_RECV == 1
SYS_SEND == 2

\* trap ids (kernel.c)
EXCP_ID_ECALL_U == 8
EXCP_ID_ECALL_M == 11
INTR_ID_SOFT == 3
INTR_ID_TIMER == 7
\* an exception that is no environment call (instruction access fault)
EXCP_ID_INSTR_FAULT == 1

\* abstract program counters and stacks: a value c >= 0 is "inside the
\* program / on the stack of the process that was started in PCB entry c"
NULL_CTX == -1
APPS_ENTRY == -2
EXIT_TRAMPOLINE == -3

Idx == 0 .. (MAX_NPROCESS - 1)
Frames == 0 .. (NFRAMES - 1)
Slots == 0 .. (ARTY_CACHED_NFRAMES - 1)
Pids == 0 .. (MaxPid - 1)
\* the values of a message byte
MaxByte == 2
Bytes == 1 .. MaxByte
MsgIdx == 1 .. SYSCALL_MSG_LEN

\* ---------------------------------------------------------------- memory
\* The one page of a process this model keeps is the page that holds its
\* struct syscall at SYSCALL_ARG: type, msg.{sender, receiver, content},
\* retval.  ZeroPage is memory that was never written.
ZeroContent == [k \in MsgIdx |-> 0]
ZeroPage == [type |-> SYS_UNUSED, sender |-> 0, receiver |-> 0,
             content |-> ZeroContent, retval |-> 0]

\* struct sys_msg of a struct syscall
MsgOf(sc) == [sender |-> sc.sender, receiver |-> sc.receiver, content |-> sc.content]

\* memcpy(&sc->msg, &tmp, sizeof(tmp))
PutMsg(sc, m) == [sc EXCEPT !.sender = m.sender, !.receiver = m.receiver,
                            !.content = m.content]

VARIABLES
    platform,       \* earth->platform: "QEMU" or "ARTY"
    run,            \* the kind of run: "messaging" or "spawning"
    relock,         \* what pthread_mutex_lock does on a mutex the caller holds
    booted,         \* grass main() has run
    halt,           \* "run", "fatal" (FATAL was called) or "hung" (blocked on cache_lock)
    proc_set,       \* struct process proc_set[MAX_NPROCESS]
    proc_curr_idx,
    proc_nprocs,    \* the static counter of proc_alloc
    table,          \* struct frame_mapping table[NFRAMES]
    cache_slots,    \* int cache_slots[ARTY_CACHED_NFRAMES]
    dirty_pages,
    cache_mem,      \* the page held at pages_start + PAGE_SIZE * slot
    disk,           \* the frame store on disk, by frame
    window,         \* the page at SYSCALL_ARG of the user address window
    curr_vm_pid,    \* the static of soft_tlb_switch
    cache_lock,     \* TRUE when the mutex is held
    msip,           \* *(int*)0x2000000: software interrupt pending
    csr_mepc,       \* the mepc register
    cpu_sp,         \* the stack the CPU runs on: the process that executes
    upc,            \* per started process: "user", or its place in a call: before
                    \* the store of sys_invoke ("invoke_send", "invoke_recv") or
                    \* in its wait ("send", "recv")
    sent,           \* per PCB entry: the content it placed in its slot for its pending send
    pend,           \* per PCB entry, its send: "waits" (blocked in proc_send, not
                    \* delivered yet), "copied" (delivered) or "no"
    expect,         \* per PCB entry: the message of the rendezvous completed for it
    waited,         \* per PCB entry: proc_yield calls it has sat through while runnable
    ncalls,         \* system calls invoked so far; mmu_alloc calls in a page-table run
    nfrees,         \* proc_free calls so far; their mmu_free calls in a page-table run
    written,        \* the page of the last paging_write of frame ProbeFrame, if the
                    \* frame was not invalidated or allocated anew since
    stored,         \* the page the caller of paging_read(ProbeFrame, 1) stored
                    \* through the address it was handed, if the frame was not
                    \* written, invalidated or allocated anew since
    pt,             \* the page-table engine: pid_to_pagetable_base, the statics
                    \* frame_id, root and leaf, satp, the words of physical
                    \* memory, and what its callers asked for
    last            \* the action taken last and what it did: its result, the
                    \* proc_yield calls it made, the branch of proc_send or
                    \* proc_recv it took, the entry that called and its peer,
                    \* what tty_recv_intr() returned, whether the handler
                    \* redirected the process to the exit trampoline, the
                    \* disk writes it made, for a timer interrupt how many
                    \* timer interrupts in a row have left the same entry
                    \* current, and the struct sys_msg tmp that proc_send or
                    \* proc_recv copied

vars == <<platform, run, relock, booted, halt, proc_set, proc_curr_idx, proc_nprocs,
          table, cache_slots, dirty_pages, cache_mem, disk, window, curr_vm_pid,
          cache_lock, msip, csr_mepc, cpu_sp, upc, sent, pend, expect, waited, ncalls, nfrees,
          written, stored, pt, last>>

\* the machine state a handler works on
Cur == [ps |-> proc_set, curr |-> proc_curr_idx, nprocs |-> proc_nprocs,
        halt |-> halt, tbl |-> table, slots |-> cache_slots, dirty |-> dirty_pages,
        cmem |-> cache_mem, disk |-> disk, win |-> window, vmpid |-> curr_vm_pid,
        lock |-> cache_lock, msip |-> msip, mepc |-> csr_mepc, sp |-> cpu_sp,
        upc |-> upc, sent |-> sent, pend |-> pend, expect |-> expect,
        waited |-> waited, pt |-> pt, cached_addr |-> 0,
        ret |-> 0, yields |-> 0, treset |-> FALSE, dwrites |-> 0, mret |-> FALSE,
        path |-> "none", peer |-> -1, tty |-> FALSE, kill |-> FALSE, dropped |-> 0,
        tmp |-> MsgOf(ZeroPage)]

Running(s) == s.halt = "run"

\* FATAL(...): print and halt
FATAL(s) == IF Running(s) THEN [s EXCEPT !.halt = "fatal"] ELSE s


\* the value stored by a handler step, unless the handler already stopped
Upd(s, t) == IF Running(s) THEN t ELSE s

\* the next step F of a handler, applied to the state s its previous step
\* produced, unless the handler stopped there
Then(s, F(_)) == IF Running(s) THEN F(s) ELSE s

\* FirstSuch(S) is the least element of a non-empty set of indices
FirstSuch(S) == CHOOSE i \in S : \A j \in S : i <= j

\* -------------------------------------------------- paging device (dev_page.c)
\* pthread_mutex_lock(&cache_lock).  The mutex is a default mutex: locking it
\* again from the thread that holds it is undefined; it blocks for ever
\* (relock = "block") or returns (relock = "pass").
pthread_mutex_lock(s) ==
    IF ~Running(s) THEN s
    ELSE IF s.lock
         THEN (IF relock = "block" THEN [s EXCEPT !.halt = "hung"] ELSE s)
         ELSE [s EXCEPT !.lock = TRUE]

pthread_mutex_unlock(s) == Upd(s, [s EXCEPT !.lock = FALSE])

\* paging_init(): all slots empty, no dirty bit
paging_init(s) ==
    [s EXCEPT !.slots = [j \in Slots |-> -1], !.dirty = [j \in Slots |-> FALSE]]

\* cache_eviction(): rnd is rand() % ARTY_CACHED_NFRAMES; returns s.ret = idx
cache_eviction(s, rnd) ==
    Then(pthread_mutex_lock(s), LAMBDA s1 :
         pthread_mutex_unlock(
             IF s1.dirty[rnd]
             THEN [s1 EXCEPT !.disk = [f \in Frames |-> IF f = s1.slots[rnd] THEN s1.cmem[rnd]
                                                        ELSE s1.disk[f]],
                             !.dirty[rnd] = FALSE,
                             !.dwrites = @ + 1,
                             !.ret = rnd]
             ELSE [s1 EXCEPT !.ret = rnd]))

\* the slots that hold frame_id with changes that are not on disk
DirtySlotsOf(s, frame_id) == {j \in Slots : s.slots[j] = frame_id /\ s.dirty[j]}

\* paging_invalidate_cache(frame_id) that writes a dirty slot back first
paging_invalidate_cache_flushes(s, frame_id) ==
    Upd(s, [s EXCEPT !.slots = [j \in Slots |-> IF s.slots[j] = frame_id THEN -1
                                                ELSE s.slots[j]],
                     !.disk = [f \in Frames |->
                                  IF f = frame_id /\ DirtySlotsOf(s, frame_id) # {}
                                  THEN s.cmem[FirstSuch(DirtySlotsOf(s, frame_id))]
                                  ELSE s.disk[f]],
                     !.dropped = @ + Cardinality(DirtySlotsOf(s, frame_id))])

\* paging_invalidate_cache(frame_id)
paging_invalidate_cache(s, frame_id) ==
    Upd(s, [s EXCEPT !.slots = [j \in Slots |-> IF s.slots[j] = frame_id THEN -1
                                                ELSE s.slots[j]],
                     !.dropped = @ + Cardinality(DirtySlotsOf(s, frame_id))])

FreeSlots(s) == {j \in Slots : s.slots[j] = -1}
SlotsOf(s, frame_id) == {j \in Slots : s.slots[j] = frame_id}

\* find_or_evict_cache_slot(frame_id): returns s.ret = the slot
find_or_evict_cache_slot(s, frame_id, rnd) ==
    IF ~Running(s) THEN s
    ELSE IF FreeSlots(s) # {} THEN [s EXCEPT !.ret = FirstSuch(FreeSlots(s))]
    ELSE cache_eviction(s, rnd)

\* paging_write(frame_id, page_no): src is the page of the user window
paging_write_qemu(s, frame_id, rnd) ==
    Then(find_or_evict_cache_slot(s, frame_id, rnd), LAMBDA s1 :
         pthread_mutex_unlock([s1 EXCEPT !.cmem[s1.ret] = s1.win,
                                         !.dirty[s1.ret] = TRUE, !.ret = 0]))

paging_write_arty(s, frame_id, rnd) ==
    IF SlotsOf(s, frame_id) # {}
    THEN \* in the cache: copy if the bytes differ, return with the mutex held
         LET i == FirstSuch(SlotsOf(s, frame_id))
         IN  IF s.cmem[i] # s.win
             THEN [s EXCEPT !.cmem[i] = s.win, !.dirty[i] = TRUE, !.ret = 0]
             ELSE [s EXCEPT !.ret = 0]
    ELSE Then(IF FreeSlots(s) # {}
              THEN [s EXCEPT !.ret = FirstSuch(FreeSlots(s))]
              ELSE cache_eviction(s, rnd),
              LAMBDA s1 :
              pthread_mutex_unlock([s1 EXCEPT !.slots[s1.ret] = frame_id,
                                              !.cmem[s1.ret] = s1.win,
                                              !.dirty[s1.ret] = TRUE,
                                              !.ret = 0]))

paging_write(s, frame_id, rnd) ==
    Then(pthread_mutex_lock(s), LAMBDA s1 :
         IF platform = "QEMU" THEN paging_write_qemu(s1, frame_id, rnd)
         ELSE paging_write_arty(s1, frame_id, rnd))

\* paging_read(frame_id, alloc_only): returns s.ret = the slot whose address
\* it returns.  differs is the outcome of the memcmp of the slot with the
\* memory at address frame_id << 12, which is no page of the cache.
paging_read_qemu(s, frame_id, alloc_only, rnd, differs) ==
    Then(find_or_evict_cache_slot(s, frame_id, rnd), LAMBDA s1 :
         pthread_mutex_unlock(
             IF ~alloc_only /\ differs
             THEN [s1 EXCEPT !.cmem[s1.ret] = s1.disk[frame_id], !.dirty[s1.ret] = FALSE]
             ELSE s1))

\* paging_read on the board without the search for the frame in the cache
paging_read_arty_installs(s, frame_id, alloc_only, rnd) ==
    Then(IF FreeSlots(s) # {}
         THEN [s EXCEPT !.ret = FirstSuch(FreeSlots(s))]
         ELSE cache_eviction(s, rnd),
         LAMBDA s1 :
         pthread_mutex_unlock(
             IF ~alloc_only
             THEN [s1 EXCEPT !.slots[s1.ret] = frame_id,
                             !.cmem[s1.ret] = s1.disk[frame_id],
                             !.dirty[s1.ret] = FALSE]
             ELSE [s1 EXCEPT !.slots[s1.ret] = frame_id]))

paging_read_arty(s, frame_id, alloc_only, rnd) ==
    IF SlotsOf(s, frame_id) # {}
    THEN \* found in the cache: return with the mutex held
         [s EXCEPT !.ret = FirstSuch(SlotsOf(s, frame_id))]
    ELSE Then(IF FreeSlots(s) # {}
              THEN [s EXCEPT !.ret = FirstSuch(FreeSlots(s))]
              ELSE cache_eviction(s, rnd),
              LAMBDA s1 :
              pthread_mutex_unlock(
                  IF ~alloc_only
                  THEN [s1 EXCEPT !.slots[s1.ret] = frame_id,
                                  !.cmem[s1.ret] = s1.disk[frame_id],
                                  !.dirty[s1.ret] = FALSE]
                  ELSE [s1 EXCEPT !.slots[s1.ret] = frame_id]))

paging_read(s, frame_id, alloc_only, rnd, differs) ==
    Then(pthread_mutex_lock(s), LAMBDA s1 :
         IF platform = "QEMU"
         THEN paging_read_qemu(s1, frame_id, alloc_only, rnd, differs)
         ELSE paging_read_arty(s1, frame_id, alloc_only, rnd))

\* ----------------------------------------------- frames and software TLB (cpu_mmu.c)
ZeroMapping == [use |-> 0, pid |-> 0, page_no |-> 0]
\* the page number of SYSCALL_ARG in the user window
SYSCALL_PAGE == 1

FreeFrames(s) == {i \in DOMAIN s.tbl : s.tbl[i].use = 0}
FramesOf(s, pid) == {i \in DOMAIN s.tbl : s.tbl[i].use # 0 /\ s.tbl[i].pid = pid}

\* mmu_alloc that takes the free frame of the highest index
mmu_alloc_highest(s, rnd) ==
    IF ~Running(s) THEN s
    ELSE IF FreeFrames(s) = {} THEN FATAL(s)
    ELSE LET i == CHOOSE f \in FreeFrames(s) : \A g \in FreeFrames(s) : g <= f
         IN  Then(paging_read(s, i, TRUE, rnd, FALSE), LAMBDA s1 :
                  [s1 EXCEPT !.tbl[i].use = 1, !.ret = i])

\* mmu_alloc(&frame_id, &cached_addr): returns s.ret = frame_id and
\* s.cached_addr = the slot whose address paging_read returned
mmu_alloc(s, rnd) ==
    IF ~Running(s) THEN s
    ELSE IF FreeFrames(s) = {} THEN FATAL(s)
    ELSE LET i == FirstSuch(FreeFrames(s))
         IN  Then(paging_read(s, i, TRUE, rnd, FALSE), LAMBDA s1 :
                  [s1 EXCEPT !.tbl[i].use = 1, !.cached_addr = s1.ret, !.ret = i])

\* mmu_free(pid), from frame i on to the end of the frame table
RECURSIVE FreeFrom(_, _, _)
FreeFrom(s, pid, i) ==
    IF i \notin DOMAIN s.tbl \/ ~Running(s) THEN s
    ELSE FreeFrom(IF s.tbl[i].use # 0 /\ s.tbl[i].pid = pid
                  THEN [paging_invalidate_cache(s, i) EXCEPT !.tbl[i] = ZeroMapping]
                  ELSE s,
                  pid, i + 1)

\* mmu_free(pid) that leaves the frame cache alone
mmu_free_keeps_resident(s, pid) ==
    Upd(s, [s EXCEPT !.tbl = [i \in Frames |-> IF s.tbl[i].use # 0 /\ s.tbl[i].pid = pid
                                               THEN ZeroMapping ELSE s.tbl[i]]])

mmu_free(s, pid) == FreeFrom(s, pid, 0)

\* soft_tlb_map(pid, page_no, frame_id)
soft_tlb_map(s, pid, page_no, frame_id) ==
    Upd(s, [s EXCEPT !.tbl[frame_id].pid = pid, !.tbl[frame_id].page_no = page_no])

\* the two loops of soft_tlb_switch, from frame i on.  o.w and o.r are the
\* rand() results of the evictions, o.c the memcmp outcome of paging_read.
RECURSIVE UnmapFrom(_, _, _)
UnmapFrom(s, i, o) ==
    IF i = NFRAMES \/ ~Running(s) THEN s
    ELSE UnmapFrom(IF s.tbl[i].use # 0 /\ s.tbl[i].pid = s.vmpid
                   THEN paging_write(s, i, o.w) ELSE s,
                   i + 1, o)

RECURSIVE MapFrom(_, _, _, _)
MapFrom(s, pid, i, o) ==
    IF i = NFRAMES \/ ~Running(s) THEN s
    ELSE MapFrom(IF s.tbl[i].use # 0 /\ s.tbl[i].pid = pid
                 THEN Then(paging_read(s, i, FALSE, o.r, o.c), LAMBDA s1 :
                           [s1 EXCEPT !.win = s1.cmem[s1.ret]])
                 ELSE s,
                 pid, i + 1, o)

\* soft_tlb_switch(pid) without the test for the process that is mapped
soft_tlb_switch_always(s, pid, o) ==
    IF ~Running(s) THEN s
    ELSE Then(MapFrom(UnmapFrom(s, 0, o), pid, 0, o), LAMBDA s1 :
              [s1 EXCEPT !.vmpid = pid])

\* soft_tlb_switch(pid)
soft_tlb_switch(s, pid, o) ==
    IF ~Running(s) \/ pid = s.vmpid THEN s
    ELSE Then(MapFrom(UnmapFrom(s, 0, o), pid, 0, o), LAMBDA s1 :
              [s1 EXCEPT !.vmpid = pid])

\* earth->mmu_switch: the software TLB is the translation in use
mmu_switch(s, pid, o) == soft_tlb_switch(s, pid, o)


\* ------------------------------------------------------ processes (process.c)
curr_pid(s) == s.ps[s.curr].pid
curr_status(s) == s.ps[s.curr].status

\* proc_set_status(pid, status): every entry that carries pid
proc_set_status(s, pid, status) ==
    Upd(s, [s EXCEPT !.ps = [i \in Idx |-> IF s.ps[i].pid = pid
                                           THEN [s.ps[i] EXCEPT !.status = status]
                                           ELSE s.ps[i]]])

proc_set_ready(s, pid) == proc_set_status(s, pid, PROC_READY)
proc_set_running(s, pid) == proc_set_status(s, pid, PROC_RUNNING)
proc_set_runnable(s, pid) == proc_set_status(s, pid, PROC_RUNNABLE)

UnusedEntries(s) == {i \in Idx : s.ps[i].status = PROC_UNUSED}

\* proc_alloc() that numbers a process after the entry it takes
proc_alloc_entry_pid(s) ==
    IF ~Running(s) THEN s
    ELSE IF UnusedEntries(s) = {} THEN FATAL(s)
    ELSE LET i == FirstSuch(UnusedEntries(s))
         IN  [s EXCEPT !.nprocs = @ + 1,
                       !.ps[i].pid = i + 1,
                       !.ps[i].status = PROC_LOADING,
                       !.ret = i + 1]

\* proc_alloc() that takes the unused entry of the highest index
proc_alloc_last_entry(s) ==
    IF ~Running(s) THEN s
    ELSE IF UnusedEntries(s) = {} THEN FATAL(s)
    ELSE LET i == CHOOSE k \in UnusedEntries(s) : \A j \in UnusedEntries(s) : j <= k
         IN  [s EXCEPT !.nprocs = @ + 1,
                       !.ps[i].pid = s.nprocs,
                       !.ps[i].status = PROC_LOADING,
                       !.ret = s.nprocs]

\* proc_alloc(): new_pid is the value of proc_nprocs before the increment
\* (atomic_fetch_add); returns s.ret = new_pid
proc_alloc(s) ==
    IF ~Running(s) THEN s
    ELSE IF UnusedEntries(s) = {} THEN FATAL(s)
    ELSE LET i == FirstSuch(UnusedEntries(s))
             new_pid == s.nprocs
         IN  [s EXCEPT !.nprocs = @ + 1,
                       !.ps[i].pid = new_pid,
                       !.ps[i].status = PROC_LOADING,
                       !.ret = new_pid]

\* proc_free(-1): the loop over the user applications, from entry i on
RECURSIVE FreeUsersFrom(_, _)
FreeUsersFrom(s, i) ==
    IF i = MAX_NPROCESS \/ ~Running(s) THEN s
    ELSE FreeUsersFrom(IF s.ps[i].pid >= GPID_USER_START /\ s.ps[i].status # PROC_UNUSED
                       THEN [mmu_free(s, s.ps[i].pid) EXCEPT !.ps[i].status = PROC_UNUSED]
                       ELSE s,
                       i + 1)

\* proc_free(pid)
proc_free(s, pid) ==
    IF pid # -1 THEN proc_set_status(mmu_free(s, pid), pid, PROC_UNUSED)
    ELSE FreeUsersFrom(s, 0)

\* ------------------------------------------------------- scheduler (kernel.c)
Schedulable(st) == st \in {PROC_READY, PROC_RUNNING, PROC_RUNNABLE}

\* the offsets i of the loop of proc_yield whose entry can run
YieldOffsets(s) == {i \in 1 .. MAX_NPROCESS :
                       Schedulable(s.ps[(s.curr + i) % MAX_NPROCESS].status)}

\* the bookkeeping of one proc_yield call that picked next_idx: how many calls
\* each entry has sat through while READY or RUNNABLE
Sat(s, next_idx) ==
    [i \in Idx |-> IF i = next_idx THEN 0
                   ELSE IF s.ps[i].status \in {PROC_READY, PROC_RUNNABLE}
                        THEN (IF s.waited[i] < MAX_NPROCESS + 1 THEN s.waited[i] + 1
                              ELSE s.waited[i])
                        ELSE 0]

\* proc_yield() with a scan that starts at entry 0, not at the entry after the
\* current one
proc_yield_from_zero(s, o) ==
    IF ~Running(s) THEN s
    ELSE IF YieldOffsets(s) = {} THEN FATAL([s EXCEPT !.yields = @ + 1])
    ELSE LET next_idx == FirstSuch({i \in Idx : Schedulable(s.ps[i].status)})
             s0 == [s EXCEPT !.yields = @ + 1, !.waited = Sat(s, next_idx)]
             s1 == IF curr_status(s) = PROC_RUNNING
                   THEN proc_set_runnable(s0, curr_pid(s)) ELSE s0
         IN  Then(mmu_switch([s1 EXCEPT !.curr = next_idx], s.ps[next_idx].pid, o),
                  LAMBDA s3 :
                  \* earth->timer_reset()
                  IF curr_status(s3) = PROC_READY
                  THEN \* first run: enter the application with mret
                       [proc_set_running(s3, curr_pid(s3)) EXCEPT
                            !.treset = TRUE, !.mepc = APPS_ENTRY, !.sp = s3.curr,
                            !.upc[s3.curr] = "user", !.mret = TRUE]
                  ELSE [proc_set_running(s3, curr_pid(s3)) EXCEPT !.treset = TRUE])

proc_yield(s, o) ==
    IF ~Running(s) THEN s
    ELSE IF YieldOffsets(s) = {} THEN FATAL([s EXCEPT !.yields = @ + 1])
    ELSE LET next_idx == (s.curr + FirstSuch(YieldOffsets(s))) % MAX_NPROCESS
             s0 == [s EXCEPT !.yields = @ + 1, !.waited = Sat(s, next_idx)]
             s1 == IF curr_status(s) = PROC_RUNNING
                   THEN proc_set_runnable(s0, curr_pid(s)) ELSE s0
         IN  Then(mmu_switch([s1 EXCEPT !.curr = next_idx], s.ps[next_idx].pid, o),
                  LAMBDA s3 :
                  \* earth->timer_reset()
                  IF curr_status(s3) = PROC_READY
                  THEN \* first run: enter the application with mret
                       [proc_set_running(s3, curr_pid(s3)) EXCEPT
                            !.treset = TRUE, !.mepc = APPS_ENTRY, !.sp = s3.curr,
                            !.upc[s3.curr] = "user", !.mret = TRUE]
                  ELSE [proc_set_running(s3, curr_pid(s3)) EXCEPT !.treset = TRUE])

\* ------------------------------------------------------- messaging (kernel.c)
EntriesOf(s, pid) == {i \in Idx : s.ps[i].pid = pid}

\* proc_send(sc) that reports nothing when the receiver is absent
proc_send_silent(s, o1, o2, o3) ==
    IF ~Running(s) THEN s
    ELSE LET sa == [s EXCEPT !.win.sender = curr_pid(s)]
             receiver == s.win.receiver
         IN  IF EntriesOf(s, receiver) = {}
             THEN [sa EXCEPT !.path = "absent"]
             ELSE LET i == FirstSuch(EntriesOf(s, receiver))
                  IN  IF s.ps[i].status # PROC_WAIT_TO_RECV
                      THEN proc_yield([sa EXCEPT !.ps[s.curr].status = PROC_WAIT_TO_SEND,
                                                 !.ps[s.curr].receiver_pid = receiver,
                                                 !.pend[s.curr] = "waits",
                                                 !.path = "send_waits", !.peer = i],
                                      o3)
                      ELSE Then(mmu_switch(sa, curr_pid(s), o1), LAMBDA s1 :
                           Then(mmu_switch(s1, receiver, o2), LAMBDA s2 :
                                proc_yield(
                                    [proc_set_runnable(
                                         [s2 EXCEPT !.win = PutMsg(s2.win, MsgOf(s1.win))],
                                         receiver)
                                     EXCEPT !.expect[i] = [sender |-> curr_pid(s),
                                                           content |-> s.sent[s.curr],
                                                           first |-> "recv"],
                                            !.pend[s.curr] = "copied",
                                            !.tmp = MsgOf(s1.win),
                                            !.path = "send_copies", !.peer = i],
                                    o3)))

proc_send(s, o1, o2, o3) ==
    IF ~Running(s) THEN s
    ELSE LET sa == [s EXCEPT !.win.sender = curr_pid(s)]
             receiver == s.win.receiver
         IN  IF EntriesOf(s, receiver) = {}
             THEN [sa EXCEPT !.win.retval = -1, !.path = "absent"]
             ELSE LET i == FirstSuch(EntriesOf(s, receiver))
                  IN  IF s.ps[i].status # PROC_WAIT_TO_RECV
                      THEN proc_yield([sa EXCEPT !.ps[s.curr].status = PROC_WAIT_TO_SEND,
                                                 !.ps[s.curr].receiver_pid = receiver,
                                                 !.pend[s.curr] = "waits",
                                                 !.path = "send_waits", !.peer = i],
                                      o3)
                      ELSE Then(mmu_switch(sa, curr_pid(s), o1), LAMBDA s1 :
                           Then(mmu_switch(s1, receiver, o2), LAMBDA s2 :
                                proc_yield(
                                    [proc_set_runnable(
                                         [s2 EXCEPT !.win = PutMsg(s2.win, MsgOf(s1.win))],
                                         receiver)
                                     EXCEPT !.expect[i] = [sender |-> curr_pid(s),
                                                           content |-> s.sent[s.curr],
                                                           first |-> "recv"],
                                            !.pend[s.curr] = "copied",
                                            !.tmp = MsgOf(s1.win),
                                            !.path = "send_copies", !.peer = i],
                                    o3)))

WaitingSenders(s) == {i \in Idx : s.ps[i].status = PROC_WAIT_TO_SEND
                                  /\ s.ps[i].receiver_pid = curr_pid(s)}

\* proc_recv(sc) that blocks without looking for a waiting sender
proc_recv_blocks(s, o1, o2, o3) ==
    IF ~Running(s) THEN s
    ELSE proc_yield([s EXCEPT !.ps[s.curr].status = PROC_WAIT_TO_RECV,
                              !.path = "recv_waits"], o3)

\* proc_recv(sc)
proc_recv(s, o1, o2, o3) ==
    IF ~Running(s) THEN s
    ELSE IF WaitingSenders(s) = {}
         THEN proc_yield([s EXCEPT !.ps[s.curr].status = PROC_WAIT_TO_RECV,
                                   !.path = "recv_waits"], o3)
         ELSE LET i == FirstSuch(WaitingSenders(s))
                  sender == s.ps[i].pid
              IN  Then(mmu_switch(s, sender, o1), LAMBDA s1 :
                  Then(mmu_switch(s1, curr_pid(s), o2), LAMBDA s2 :
                       proc_yield(
                           [proc_set_runnable(
                                [s2 EXCEPT !.win = PutMsg(s2.win, MsgOf(s1.win))],
                                sender)
                            EXCEPT !.pend[i] = "copied",
                                   !.expect[s.curr] = [sender |-> sender,
                                                       content |-> s.sent[i],
                                                       first |-> "send"],
                                   !.tmp = MsgOf(s1.win),
                                   !.path = "recv_copies", !.peer = i],
                           o3)))

\* proc_syscall()
proc_syscall(s, o1, o2, o3) ==
    IF ~Running(s) THEN s
    ELSE LET type == s.win.type
             s1 == [s EXCEPT !.win.retval = 0, !.win.type = SYS_UNUSED, !.msip = 0]
         IN  CASE type = SYS_RECV -> proc_recv(s1, o1, o2, o3)
               [] type = SYS_SEND -> proc_send(s1, o1, o2, o3)
               [] OTHER -> FATAL(s1)


\* ------------------------------------------------------ trap entry (kernel.c)
\* the mepc the hardware sets when a trap is taken: the interrupted program
TrapPC(s) == IF s.mepc = APPS_ENTRY THEN s.sp ELSE s.mepc

\* ctx_start(&proc_set[proc_curr_idx].sp, GRASS_STACK_TOP) and ctx_entry():
\* kernel_entry is "syscall" (proc_syscall) or "yield" (proc_yield)
ctx_entry(s, kernel_entry, o1, o2, o3) ==
    LET s2 == [s EXCEPT !.ps[s.curr].sp = s.sp, !.ps[s.curr].mepc = s.mepc]
    IN  Then(IF kernel_entry = "syscall" THEN proc_syscall(s2, o1, o2, o3)
             ELSE proc_yield(s2, o3),
             LAMBDA s3 :
             IF s3.mret THEN s3
             ELSE [s3 EXCEPT !.mepc = s3.ps[s3.curr].mepc, !.sp = s3.ps[s3.curr].sp])

\* intr_entry(id) without the test that spares the privileged servers
intr_entry_preempts(s, id, tty, o1, o2, o3) ==
    IF tty /\ curr_pid(s) >= GPID_USER_START
    THEN [s EXCEPT !.mepc = EXIT_TRAMPOLINE, !.upc[s.sp] = "user", !.kill = TRUE]
    ELSE IF id = INTR_ID_SOFT THEN ctx_entry(s, "syscall", o1, o2, o3)
    ELSE IF id = INTR_ID_TIMER THEN ctx_entry(s, "yield", o1, o2, o3)
    ELSE FATAL(s)

\* intr_entry(id) that redirects whatever process is current on ctrl-C
intr_entry_kills_any(s, id, tty, o1, o2, o3) ==
    IF id = INTR_ID_TIMER /\ curr_pid(s) < GPID_SHELL
    THEN [s EXCEPT !.treset = TRUE]
    ELSE IF tty
    THEN [s EXCEPT !.mepc = EXIT_TRAMPOLINE, !.upc[s.sp] = "user", !.kill = TRUE]
    ELSE IF id = INTR_ID_SOFT THEN ctx_entry(s, "syscall", o1, o2, o3)
    ELSE IF id = INTR_ID_TIMER THEN ctx_entry(s, "yield", o1, o2, o3)
    ELSE FATAL(s)

intr_entry(s, id, tty, o1, o2, o3) ==
    IF id = INTR_ID_TIMER /\ curr_pid(s) < GPID_SHELL
    THEN [s EXCEPT !.treset = TRUE]
    ELSE IF tty /\ curr_pid(s) >= GPID_USER_START
    THEN [s EXCEPT !.mepc = EXIT_TRAMPOLINE, !.upc[s.sp] = "user", !.kill = TRUE]
    ELSE IF id = INTR_ID_SOFT THEN ctx_entry(s, "syscall", o1, o2, o3)
    ELSE IF id = INTR_ID_TIMER THEN ctx_entry(s, "yield", o1, o2, o3)
    ELSE FATAL(s)

\* excp_entry(id)
excp_entry(s, id, o1, o2, o3) ==
    IF id = EXCP_ID_ECALL_U THEN proc_syscall(s, o1, o2, o3)
    ELSE IF id = EXCP_ID_ECALL_M /\ curr_pid(s) >= GPID_USER_START
    THEN [s EXCEPT !.mepc = EXIT_TRAMPOLINE, !.upc[s.sp] = "user", !.kill = TRUE]
    ELSE FATAL(s)

\* ------------------------------------------- system call interface (syscall.c)
\* memcpy(sc->msg.content, msg, size)
CopyIn(content, msg, size) == [k \in MsgIdx |-> IF k <= size THEN msg[k] ELSE content[k]]

\* sys_send that refuses a message of SYSCALL_MSG_LEN bytes
sys_send_short(s, receiver, msg, size) ==
    IF size >= SYSCALL_MSG_LEN THEN [s EXCEPT !.ret = -1]
    ELSE LET c == CopyIn(s.win.content, msg, size)
         IN  [s EXCEPT !.win.type = SYS_SEND,
                       !.win.receiver = receiver,
                       !.win.content = c,
                       !.upc[s.sp] = "invoke_send",
                       !.sent[s.curr] = c,
                       !.pend[s.curr] = "no"]

\* sys_send(receiver, msg, size) up to the call of sys_invoke: the stores into
\* the slot.  A timer interrupt can be taken before sys_invoke raises the
\* software interrupt.
sys_send(s, receiver, msg, size) ==
    IF size > SYSCALL_MSG_LEN THEN [s EXCEPT !.ret = -1]
    ELSE LET c == CopyIn(s.win.content, msg, size)
         IN  [s EXCEPT !.win.type = SYS_SEND,
                       !.win.receiver = receiver,
                       !.win.content = c,
                       !.upc[s.sp] = "invoke_send",
                       !.sent[s.curr] = c,
                       !.pend[s.curr] = "no"]

\* sys_recv(sender, buf, size) up to the call of sys_invoke
sys_recv(s, size) ==
    IF size > SYSCALL_MSG_LEN THEN [s EXCEPT !.ret = -1]
    ELSE [s EXCEPT !.win.type = SYS_RECV, !.upc[s.sp] = "invoke_recv"]

\* the store of sys_invoke(): *((int*)0x2000000) = 1
sys_invoke(s) ==
    [s EXCEPT !.msip = 1,
              !.upc[s.sp] = IF s.upc[s.sp] = "invoke_send" THEN "send" ELSE "recv"]

\* the rest of sys_send / sys_recv once the wait of sys_invoke is over:
\* return sc->retval
sys_return(s) == [s EXCEPT !.ret = s.win.retval, !.upc[s.sp] = "user"]

\* ---------------------------------------------------------- boot (grass.c)
\* elf_load(pid, ...): one frame, mapped at the page of SYSCALL_ARG
elf_load(s, pid, rnd) ==
    Then(mmu_alloc(s, rnd), LAMBDA s1 : soft_tlb_map(s1, pid, SYSCALL_PAGE, s1.ret))

\* main() of the grass layer
main(s, o) ==
    Then(elf_load(s, GPID_PROCESS, o.r), LAMBDA s1 :
    Then(proc_alloc(s1), LAMBDA s2 :
    Then(mmu_switch(proc_set_running(s2, s2.ret), GPID_PROCESS, o), LAMBDA s4 :
         [s4 EXCEPT !.mepc = APPS_ENTRY, !.sp = s4.curr])))


\* ------------------------------------------------ page tables (cpu_mmu.c)
\* The geometry is scaled down: a page table has PT_ENTRIES entries (1024 in
\* the program), so that VPN1 = page_no \div PT_ENTRIES and
\* VPN0 = page_no % PT_ENTRIES; pid_to_pagetable_base has PT_NPIDS entries (32
\* in the program); the frame table of a page-table run has PT_NFRAMES entries.
PT_ENTRIES == 14
PT_NPIDS == 3
PT_NFRAMES == 16
PtIdx == 0 .. (PT_ENTRIES - 1)
\* mmu_alloc calls of the loader and mmu_free calls of the process server in a
\* page-table run
PT_MAXALLOCS == 3
PT_MAXFREES == 2
PtPids == 0 .. (PT_NPIDS - 1)
PtFrames == 0 .. (PT_NFRAMES - 1)

\* permission flags
OS_RWX == 15
USER_RWX == 31
\* the valid bit of an entry
PTE_V == 1
\* an entry holds address >> 2: its page number times 1024, plus ten flag bits
PTE_PPN_UNIT == 1024

\* a | b
RECURSIVE BitOr(_, _)
BitOr(a, b) ==
    IF a = 0 THEN b
    ELSE IF b = 0 THEN a
    ELSE (IF a % 2 = 1 \/ b % 2 = 1 THEN 1 ELSE 0) + 2 * BitOr(a \div 2, b \div 2)

\* Physical memory, in pages.  The identity regions are those of
\* pagetable_identity_mapping, in the order of its calls, and they keep the
\* order of their addresses and their shape: CLINT is a few pages at the
\* start of a leaf that cover the index of its own root entry, UART0 and SPI1
\* are one page each in one leaf, and the boot ROM, the disk image, the data
\* memory (which holds the page cache of the paging device) and each of the
\* ITIM_NREGIONS blocks of the ITIM fill a whole leaf.
ITIM_NREGIONS == 8
CLINT_PAGE == PT_ENTRIES
CLINT_NPAGES == 2
ITIM_PAGE == 2 * PT_ENTRIES
UART0_PAGE == (2 + ITIM_NREGIONS) * PT_ENTRIES + CLINT_NPAGES + 1
SPI1_PAGE == (2 + ITIM_NREGIONS) * PT_ENTRIES + CLINT_NPAGES + 3
ROM_PAGE == (3 + ITIM_NREGIONS) * PT_ENTRIES
DISK_PAGE == (4 + ITIM_NREGIONS) * PT_ENTRIES
DTIM_PAGE == (5 + ITIM_NREGIONS) * PT_ENTRIES
IdentityRegions ==
    <<[addr |-> CLINT_PAGE, npages |-> CLINT_NPAGES],
      [addr |-> UART0_PAGE, npages |-> 1],
      [addr |-> SPI1_PAGE, npages |-> 1],
      [addr |-> ROM_PAGE, npages |-> PT_ENTRIES],
      [addr |-> DISK_PAGE, npages |-> PT_ENTRIES],
      [addr |-> DTIM_PAGE, npages |-> PT_ENTRIES]>>
    \o [i \in 1 .. ITIM_NREGIONS |->
            [addr |-> ITIM_PAGE + (i - 1) * PT_ENTRIES, npages |-> PT_ENTRIES]]
IdentityPages ==
    UNION {IdentityRegions[r].addr .. (IdentityRegions[r].addr + IdentityRegions[r].npages - 1) :
           r \in DOMAIN IdentityRegions}
\* the pages that are mapped: the first page of every leaf, the pages next to
\* and inside the regions of a few pages, the first slot of the page cache
\* and the last page of memory
PageNos ==
    {v * PT_ENTRIES : v \in PtIdx}
    \cup {CLINT_PAGE + CLINT_NPAGES, UART0_PAGE, SPI1_PAGE, DTIM_PAGE + 1,
          PT_ENTRIES * PT_ENTRIES - 1}
PhysPages == 0 .. (DTIM_PAGE + PT_ENTRIES - 1)
RamPages == DTIM_PAGE .. (DTIM_PAGE + PT_ENTRIES - 1)
\* pages_start of the paging device, as a page number
PAGES_START_PAGE == DTIM_PAGE + 1
\* the address of a cache slot, as a page number
SlotPage(j) == PAGES_START_PAGE + j

NoTables ==
    [base |-> [p \in PtPids |-> 0], frame_id |-> 0, root |-> 0, leaf |-> 0,
     satp |-> [mode |-> 0, ppn |-> 0],
     mem |-> [a \in PhysPages |-> [k \in PtIdx |-> 0]],
     rom |-> "drop",
     addr |-> [f \in PtFrames |-> 0],
     req |-> [pid |-> 0, page_no |-> 0, frame_id |-> 0]]

\* the page-table engine in a run that uses the software TLB: no page table
\* is built, and the words of memory are not followed
SoftTlbTables == [NoTables EXCEPT !.mem = <<>>]

\* page[k] = val[k] for every k of the domain of val.  A store outside the
\* data memory goes through a pointer that was made from a table entry: the
\* store is lost (rom = "drop") or traps and the boot or the handler never
\* returns (rom = "trap").
Stores(s, page, val) ==
    IF ~Running(s) \/ DOMAIN val = {} THEN s
    ELSE IF page \in RamPages
    THEN [s EXCEPT !.pt.mem[page] =
                       [k \in PtIdx |-> IF k \in DOMAIN val THEN val[k] ELSE @[k]]]
    ELSE IF s.pt.rom = "trap" THEN [s EXCEPT !.halt = "hung"] ELSE s

\* memset(page, 0, PAGE_SIZE)
memset0(s, page) == Stores(s, page, [k \in PtIdx |-> 0])

\* (void*)((entry << 2) & 0xFFFFF000), as a page number
PtePage(entry) == entry \div PTE_PPN_UNIT
\* ((unsigned int)page >> 2) | flag
Pte(page, flag) == BitOr(page * PTE_PPN_UNIT, flag)

\* earth->mmu_alloc(&frame_id, &p); table[frame_id].pid = pid; memset(p, 0,
\* PAGE_SIZE): the page p is s.cached_addr of the result
alloc_table(s, pid) ==
    Then(mmu_alloc(s, 0), LAMBDA s1 :
         memset0([s1 EXCEPT !.pt.frame_id = s1.ret, !.tbl[s1.ret].pid = pid],
                 SlotPage(s1.cached_addr)))

\* setup_identity_region(pid, addr, npages, flag), addr in pages
setup_identity_region(s, pid, addr, npages, flag) ==
    IF ~Running(s) THEN s
    ELSE LET vpn1 == addr \div PT_ENTRIES
             vpn0 == addr % PT_ENTRIES
             s1 == IF s.pt.mem[s.pt.root][vpn1] % 2 = 1
                   THEN [s EXCEPT !.pt.leaf = PtePage(s.pt.mem[s.pt.root][vpn1])]
                   ELSE Then(alloc_table(s, pid), LAMBDA s2 :
                        Stores([s2 EXCEPT !.pt.leaf = SlotPage(s2.cached_addr)],
                               s2.pt.root,
                               [k \in {vpn1} |-> Pte(SlotPage(s2.cached_addr), PTE_V)]))
         IN  Then(s1, LAMBDA s3 :
                  Stores(s3, s3.pt.leaf,
                         [k \in vpn0 .. (vpn0 + npages - 1) |-> Pte(addr + (k - vpn0), flag)]))

\* the calls of setup_identity_region of pagetable_identity_mapping, from
\* the r-th on
RECURSIVE setup_regions(_, _, _)
setup_regions(s, pid, r) ==
    IF r > Len(IdentityRegions) THEN s
    ELSE setup_regions(setup_identity_region(s, pid, IdentityRegions[r].addr,
                                             IdentityRegions[r].npages, OS_RWX),
                       pid, r + 1)

\* pagetable_identity_mapping(pid)
pagetable_identity_mapping(s, pid) ==
    Then(alloc_table(s, pid), LAMBDA s1 :
         setup_regions([s1 EXCEPT !.pt.root = SlotPage(s1.cached_addr),
                                  !.pt.base[pid] = SlotPage(s1.cached_addr)],
                       pid, 1))

\* page_table_map(pid, page_no, frame_id)
page_table_map(s, pid, page_no, frame_id) ==
    IF ~Running(s) THEN s
    ELSE IF pid >= PT_NPIDS THEN FATAL(s)
    ELSE LET s1 == IF s.pt.base[pid] = 0 THEN pagetable_identity_mapping(s, pid) ELSE s
             vpn1 == page_no \div PT_ENTRIES
             vpn0 == page_no % PT_ENTRIES
         IN  Then(s1, LAMBDA s2 :
             LET root == s2.pt.base[pid]
             IN  IF s2.pt.mem[root][vpn1] % 2 = 1
                 THEN Stores(s2, PtePage(s2.pt.mem[root][vpn1]),
                             [k \in {vpn0} |-> BitOr(frame_id * 4, USER_RWX)])
                 ELSE \* mmu_alloc(&frame_id, &leaf) stores into the parameter
                      Then(mmu_alloc(s2, 0), LAMBDA s3 :
                      Then(memset0([s3 EXCEPT !.tbl[s3.ret].pid = pid],
                                   SlotPage(s3.cached_addr)), LAMBDA s4 :
                      Then(Stores(s4, root,
                                  [k \in {vpn1} |-> Pte(SlotPage(s3.cached_addr), PTE_V)]),
                           LAMBDA s5 :
                           Stores(s5, SlotPage(s3.cached_addr),
                                  [k \in {vpn0} |-> BitOr(s3.ret * 4, USER_RWX)])))))

\* csrw satp, (root >> 12) | (1 << 31)
csrw_satp(s, page) == [s EXCEPT !.pt.satp = [mode |-> 1, ppn |-> page]]

\* page_table_switch(pid)
page_table_switch(s, pid) ==
    IF ~Running(s) THEN s
    ELSE IF pid >= PT_NPIDS THEN FATAL(s)
    ELSE IF s.pt.base[pid] = 0 THEN FATAL(s)
    ELSE csrw_satp(s, s.pt.base[pid])

\* mmu_init() on QEMU when page tables are chosen
mmu_init(s) ==
    Then(pagetable_identity_mapping(paging_init(s), 0), LAMBDA s1 :
         csrw_satp(s1, s1.pt.root))

\* ------------------------------------------------------------ state machine
NoMsg == [sender |-> -1, content |-> ZeroContent, first |-> "none"]
ZeroProcess == [pid |-> 0, status |-> PROC_UNUSED, receiver_pid |-> 0,
                sp |-> NULL_CTX, mepc |-> NULL_CTX]
NoOp == [op |-> "init", arg |-> 0, ret |-> 0, yields |-> 0, treset |-> FALSE,
         path |-> "none", who |-> -1, peer |-> -1, tty |-> FALSE, kill |-> FALSE,
         dwrites |-> 0, dropped |-> 0, nth |-> 0, tmp |-> MsgOf(ZeroPage)]

NotWritten == [set |-> FALSE, page |-> ZeroPage]

\* the results of rand() % ARTY_CACHED_NFRAMES and of the memcmp of
\* paging_read that one mmu_switch may consume
Oracles ==
    IF platform = "QEMU" THEN {[w |-> 0, r |-> 0, c |-> b] : b \in BOOLEAN}
    ELSE {[w |-> a, r |-> b, c |-> TRUE] : a \in Slots, b \in Slots}

\* A handler that makes no mmu_switch consumes no such result, and one value
\* stands for all of them.
OraclesIf(used) == IF used THEN Oracles ELSE {[w |-> 0, r |-> 0, c |-> TRUE]}

\* the system call in the slot copies a message: proc_send finds its receiver
\* waiting, or proc_recv finds a waiting sender
CopiesMsg ==
    \/ /\ window.type = SYS_SEND
       /\ EntriesOf(Cur, window.receiver) # {}
       /\ proc_set[FirstSuch(EntriesOf(Cur, window.receiver))].status = PROC_WAIT_TO_RECV
    \/ /\ window.type = SYS_RECV
       /\ WaitingSenders(Cur) # {}

\* the result of earth->tty_recv_intr()
TtyIntr == IF run = "preempting" THEN {FALSE} ELSE BOOLEAN

\* the inputs of the calls.  A receiver pid is the pid of a PCB entry or
\* AbsentPid, a pid that no entry carries (every such pid is treated alike).
AbsentPid == MaxPid
Receivers == {p \in Pids : \E i \in Idx : proc_set[i].pid = p} \cup {AbsentPid}
Messages == IF run = "preempting" THEN [MsgIdx -> {1}] ELSE [MsgIdx -> Bytes]
Sizes == IF run = "preempting" THEN {SYSCALL_MSG_LEN}
         ELSE {SYSCALL_MSG_LEN, SYSCALL_MSG_LEN + 1}

\* The callers of the grass interface (sys_proc, sys_shell) are not part of the
\* core.  They spawn a process as proc_alloc, elf_load, proc_set_ready without
\* a system call in between, and free a process that is alive, or all user
\* applications (-1).
Loading == {i \in Idx : proc_set[i].status = PROC_LOADING}
Spawning == Loading # {}
FreePids == {p \in Pids : \E i \in Idx : proc_set[i].pid = p /\ proc_set[i].status # PROC_UNUSED}
            \cup {-1}

\* the calls a run may make
CallBudget == IF run \in {"messaging", "preempting"} THEN MaxCalls ELSE 1
FreeBudget == IF run = "messaging" THEN 1 ELSE IF run = "preempting" THEN 2 ELSE MaxFrees

Init ==
    /\ platform \in {"QEMU", "ARTY"}
    /\ run \in {"messaging", "spawning"}
    /\ relock \in {"block", "pass"}
    /\ (platform = "QEMU" => relock = "block")
    /\ booted = FALSE
    /\ halt = "run"
    /\ proc_set = [i \in Idx |-> ZeroProcess]
    /\ proc_curr_idx = 0
    /\ proc_nprocs = 0
    /\ table = [f \in Frames |-> ZeroMapping]
    /\ cache_slots = [j \in Slots |-> -1]
    /\ dirty_pages = [j \in Slots |-> FALSE]
    /\ cache_mem = [j \in Slots |-> ZeroPage]
    /\ disk = [f \in Frames |-> ZeroPage]
    /\ window = ZeroPage
    /\ curr_vm_pid = -1
    /\ cache_lock = FALSE
    /\ msip = 0
    /\ csr_mepc = NULL_CTX
    /\ cpu_sp = NULL_CTX
    /\ upc = [i \in Idx |-> "user"]
    /\ sent = [i \in Idx |-> ZeroContent]
    /\ pend = [i \in Idx |-> "no"]
    /\ expect = [i \in Idx |-> NoMsg]
    /\ waited = [i \in Idx |-> 0]
    /\ ncalls = 0
    /\ nfrees = 0
    /\ written = NotWritten
    /\ stored = NotWritten
    /\ pt = SoftTlbTables
    /\ last = NoOp

\* the next state is the machine state s a handler produced
Commit(s, op, arg) ==
    /\ proc_set' = s.ps
    /\ proc_curr_idx' = s.curr
    /\ proc_nprocs' = s.nprocs
    /\ halt' = s.halt
    /\ table' = s.tbl
    /\ cache_slots' = s.slots
    /\ dirty_pages' = s.dirty
    /\ cache_mem' = s.cmem
    /\ disk' = s.disk
    /\ window' = s.win
    /\ curr_vm_pid' = s.vmpid
    /\ cache_lock' = s.lock
    /\ msip' = s.msip
    /\ csr_mepc' = s.mepc
    /\ cpu_sp' = s.sp
    /\ upc' = s.upc
    /\ sent' = s.sent
    /\ pend' = [i \in Idx |-> IF s.ps[i].status \in {PROC_UNUSED, PROC_LOADING, PROC_READY}
                              THEN "no" ELSE s.pend[i]]
    /\ expect' = s.expect
    /\ waited' = [i \in Idx |-> IF s.ps[i].status \in {PROC_READY, PROC_RUNNABLE}
                                THEN s.waited[i] ELSE 0]
    /\ last' = [op |-> op, arg |-> arg, ret |-> s.ret, yields |-> s.yields,
                treset |-> s.treset, path |-> s.path,
                who |-> IF s.path = "none" THEN -1 ELSE proc_curr_idx,
                peer |-> s.peer, tty |-> s.tty, kill |-> s.kill, dwrites |-> s.dwrites,
                dropped |-> s.dropped, tmp |-> s.tmp,
                nth |-> IF op # "timer" THEN 0
                        ELSE IF last.op = "timer" /\ s.curr = proc_curr_idx
                                /\ last.nth < MaxTicks
                             THEN last.nth + 1
                             ELSE IF last.op = "timer" /\ s.curr = proc_curr_idx
                                  THEN MaxTicks ELSE 1]
    /\ ncalls' = ncalls + (IF op \in {"sys_send", "sys_recv"} /\ s.ret = 0 THEN 1 ELSE 0)
    /\ nfrees' = nfrees + (IF op = "proc_free" THEN 1 ELSE 0)
    /\ UNCHANGED <<platform, run, relock, written, stored, pt>>

\* a process is executing: traps can be taken and calls made
Live == booted /\ halt = "run" /\ cpu_sp \in Idx
\* the kernel returned into a context that was never saved (sp and mepc are
\* NULL): the instruction fetch raises an exception
Wild == booted /\ halt = "run" /\ cpu_sp = NULL_CTX
\* the process has made the stores of sys_send or sys_recv and the store of
\* sys_invoke is its next instruction
Staged == cpu_sp \in Idx /\ upc[cpu_sp] \in {"invoke_send", "invoke_recv"}
\* the process is in user code, outside a spawn of the process server
User == Live /\ msip = 0 /\ ~Spawning /\ ~Staged

\* the state at the moment a trap is taken
Trapped == [Cur EXCEPT !.mepc = TrapPC(Cur)]
\* the same, for an interrupt taken while tty_recv_intr() returns tty
TrappedTty(tty) == [Trapped EXCEPT !.tty = tty]

Main ==
    /\ ~booted
    /\ booted' = TRUE
    /\ \E o \in Oracles : Commit(main(Cur, o), "main", 0)

\* the timer fires whenever a process executes, also between the calls of a
\* spawn
TimerIntr ==
    /\ Live /\ msip = 0
    /\ \E tty \in TtyIntr, o \in OraclesIf(curr_pid(Cur) >= GPID_SHELL) :
           Commit(intr_entry(TrappedTty(tty), INTR_ID_TIMER, tty, o, o, o), "timer", 0)
    /\ UNCHANGED booted

SoftIntr ==
    /\ Live /\ msip = 1
    /\ \E tty \in TtyIntr, o1 \in OraclesIf(CopiesMsg), o2 \in OraclesIf(CopiesMsg),
          o3 \in Oracles :
           Commit(intr_entry(TrappedTty(tty), INTR_ID_SOFT, tty, o1, o2, o3), "soft", window.type)
    /\ UNCHANGED booted

Excp ==
    /\ User \/ Wild
    /\ \E id \in (IF Wild \/ run = "preempting" THEN {EXCP_ID_INSTR_FAULT}
                 ELSE {EXCP_ID_ECALL_U, EXCP_ID_ECALL_M, EXCP_ID_INSTR_FAULT}) :
       \E o1 \in OraclesIf(id = EXCP_ID_ECALL_U /\ CopiesMsg),
          o2 \in OraclesIf(id = EXCP_ID_ECALL_U /\ CopiesMsg),
          o3 \in OraclesIf(id = EXCP_ID_ECALL_U) :
           Commit(excp_entry(Trapped, id, o1, o2, o3), "excp", id)
    /\ UNCHANGED booted

SysSend ==
    /\ User /\ upc[cpu_sp] = "user" /\ ncalls < CallBudget
    /\ \E receiver \in Receivers, msg \in Messages, size \in Sizes :
           Commit(sys_send(Cur, receiver, msg, size), "sys_send", size)
    /\ UNCHANGED booted

SysRecv ==
    /\ User /\ upc[cpu_sp] = "user" /\ ncalls < CallBudget
    /\ \E size \in Sizes :
           Commit([sys_recv(Cur, size) EXCEPT !.expect[proc_curr_idx] = NoMsg],
                  "sys_recv", size)
    /\ UNCHANGED booted

\* the store of sys_invoke follows the stores into the slot, whatever happened
\* in between
SysInvoke ==
    /\ Live /\ msip = 0 /\ Staged
    /\ Commit(sys_invoke(Cur), "sys_invoke", 0)
    /\ UNCHANGED booted

SysReturn ==
    /\ User /\ upc[cpu_sp] # "user"
    /\ window.type = SYS_UNUSED
    /\ Commit(sys_return(Cur), IF upc[cpu_sp] = "send" THEN "ret_send" ELSE "ret_recv", 0)
    /\ UNCHANGED booted

ProcAlloc ==
    /\ User /\ proc_nprocs < MaxPid
    /\ Commit(proc_alloc(Cur), "proc_alloc", 0)
    /\ UNCHANGED booted

ElfLoad ==
    /\ Live /\ msip = 0
    /\ \E i \in Loading, o \in Oracles :
           /\ FramesOf(Cur, proc_set[i].pid) = {}
           /\ Commit(elf_load(Cur, proc_set[i].pid, o.r), "elf_load", proc_set[i].pid)
    /\ UNCHANGED booted

ProcSetReady ==
    /\ Live /\ msip = 0
    /\ \E i \in Loading :
           /\ FramesOf(Cur, proc_set[i].pid) # {}
           /\ Commit(proc_set_ready(Cur, proc_set[i].pid), "proc_set_ready", proc_set[i].pid)
    /\ UNCHANGED booted

ProcFree ==
    /\ User /\ nfrees < FreeBudget
    /\ \E pid \in FreePids : Commit(proc_free(Cur, pid), "proc_free", pid)
    /\ UNCHANGED booted

Next ==
    \/ Main
    \/ TimerIntr
    \/ SoftIntr
    \/ Excp
    \/ SysSend
    \/ SysRecv
    \/ SysInvoke
    \/ SysReturn
    \/ ProcAlloc
    \/ ProcSetReady
    \/ ProcFree
    \/ ElfLoad

Spec == Init /\ [][Next]_vars

\* a preempting run on the emulator
PreemptInit ==
    /\ platform = "QEMU"
    /\ run = "preempting"
    /\ relock = "block"
    /\ booted = FALSE
    /\ halt = "run"
    /\ proc_set = [i \in Idx |-> ZeroProcess]
    /\ proc_curr_idx = 0
    /\ proc_nprocs = 0
    /\ table = [f \in Frames |-> ZeroMapping]
    /\ cache_slots = [j \in Slots |-> -1]
    /\ dirty_pages = [j \in Slots |-> FALSE]
    /\ cache_mem = [j \in Slots |-> ZeroPage]
    /\ disk = [f \in Frames |-> ZeroPage]
    /\ window = ZeroPage
    /\ curr_vm_pid = -1
    /\ cache_lock = FALSE
    /\ msip = 0
    /\ csr_mepc = NULL_CTX
    /\ cpu_sp = NULL_CTX
    /\ upc = [i \in Idx |-> "user"]
    /\ sent = [i \in Idx |-> ZeroContent]
    /\ pend = [i \in Idx |-> "no"]
    /\ expect = [i \in Idx |-> NoMsg]
    /\ waited = [i \in Idx |-> 0]
    /\ ncalls = 0
    /\ nfrees = 0
    /\ written = NotWritten
    /\ stored = NotWritten
    /\ pt = SoftTlbTables
    /\ last = NoOp

PreemptSpec == PreemptInit /\ [][Next]_vars

\* -------------------------------------------- the paging device on its own
\* The callers of the paging device call paging_init, paging_read,
\* paging_write and paging_invalidate_cache in any order, for any frame, and
\* store through the address that paging_read(frame_id, 1) returned.
\* The paging device treats all frames alike: what it returns for the frame
\* that was written is followed for one of them.
ProbeFrame == FirstSuch(Frames)

SrcPages == {[ZeroPage EXCEPT !.content = [k \in MsgIdx |-> b]] : b \in Bytes}

\* rand() is called when no slot is free and, on the board, the frame is not
\* in the cache
Evicts(frame_id) ==
    /\ FreeSlots(Cur) = {}
    /\ platform = "ARTY" => SlotsOf(Cur, frame_id) = {}
Rands(frame_id) == IF Evicts(frame_id) THEN Slots ELSE {0}
\* the memcmp of paging_read is made on QEMU, when alloc_only is 0
Memcmps(alloc_only) == IF platform = "QEMU" /\ ~alloc_only THEN BOOLEAN ELSE {FALSE}

CacheInit ==
    /\ platform \in {"QEMU", "ARTY"}
    /\ run = "paging"
    /\ relock \in {"block", "pass"}
    /\ (platform = "QEMU" => relock = "block")
    /\ booted = FALSE
    /\ halt = "run"
    /\ proc_set = [i \in Idx |-> ZeroProcess]
    /\ proc_curr_idx = 0
    /\ proc_nprocs = 0
    /\ table = [f \in Frames |-> ZeroMapping]
    /\ cache_slots = [j \in Slots |-> -1]
    /\ dirty_pages = [j \in Slots |-> FALSE]
    /\ cache_mem = [j \in Slots |-> ZeroPage]
    /\ disk = [f \in Frames |-> ZeroPage]
    /\ window = ZeroPage
    /\ curr_vm_pid = -1
    /\ cache_lock = FALSE
    /\ msip = 0
    /\ csr_mepc = NULL_CTX
    /\ cpu_sp = NULL_CTX
    /\ upc = [i \in Idx |-> "user"]
    /\ sent = [i \in Idx |-> ZeroContent]
    /\ pend = [i \in Idx |-> "no"]
    /\ expect = [i \in Idx |-> NoMsg]
    /\ waited = [i \in Idx |-> 0]
    /\ ncalls = 0
    /\ nfrees = 0
    /\ written = NotWritten
    /\ stored = NotWritten
    /\ pt = SoftTlbTables
    /\ last = NoOp

\* the next state is the state s of the paging device a call produced
CacheCommit(s, op, arg) ==
    /\ halt' = s.halt
    /\ cache_slots' = s.slots
    /\ dirty_pages' = s.dirty
    /\ cache_mem' = s.cmem
    /\ disk' = s.disk
    /\ cache_lock' = s.lock
    /\ last' = [NoOp EXCEPT !.op = op, !.arg = arg, !.ret = s.ret,
                            !.dwrites = s.dwrites, !.dropped = s.dropped]
    /\ UNCHANGED <<platform, run, relock, booted, proc_set, proc_curr_idx, proc_nprocs,
                   table, window, curr_vm_pid, msip, csr_mepc, cpu_sp, upc, sent, pend,
                   expect, waited, ncalls, nfrees, pt>>

PagingInit ==
    /\ halt = "run"
    /\ CacheCommit(paging_init(Cur), "paging_init", 0)
    /\ written' = NotWritten
    /\ stored' = NotWritten

PagingRead ==
    /\ halt = "run"
    /\ \E frame_id \in Frames : \E rnd \in Rands(frame_id), differs \in Memcmps(FALSE) :
           CacheCommit(paging_read(Cur, frame_id, FALSE, rnd, differs), "paging_read", frame_id)
    /\ UNCHANGED <<written, stored>>

PagingAlloc ==
    /\ halt = "run"
    /\ \E frame_id \in Frames : \E rnd \in Rands(frame_id) :
           /\ CacheCommit(paging_read(Cur, frame_id, TRUE, rnd, FALSE), "paging_alloc", frame_id)
           /\ written' = IF frame_id = ProbeFrame THEN NotWritten ELSE written
           /\ stored' = IF frame_id = ProbeFrame THEN NotWritten ELSE stored

PagingWrite ==
    /\ halt = "run"
    /\ \E frame_id \in Frames, src \in SrcPages : \E rnd \in Rands(frame_id) :
           /\ CacheCommit(paging_write([Cur EXCEPT !.win = src], frame_id, rnd),
                          "paging_write", frame_id)
           /\ written' = IF frame_id = ProbeFrame THEN [set |-> TRUE, page |-> src]
                         ELSE written
           /\ stored' = IF frame_id = ProbeFrame THEN NotWritten ELSE stored

PagingInvalidate ==
    /\ halt = "run"
    /\ \E frame_id \in Frames :
           /\ CacheCommit(paging_invalidate_cache(Cur, frame_id), "paging_invalidate", frame_id)
           /\ written' = IF frame_id = ProbeFrame THEN NotWritten ELSE written
           /\ stored' = IF frame_id = ProbeFrame THEN NotWritten ELSE stored

\* the caller of paging_read(frame_id, 1) fills the page it was handed
StoreThrough ==
    /\ halt = "run"
    /\ last.op = "paging_alloc"
    /\ \E src \in SrcPages :
           /\ CacheCommit([Cur EXCEPT !.cmem[last.ret] = src, !.ret = last.ret],
                          "store", last.arg)
           /\ stored' = IF last.arg = ProbeFrame THEN [set |-> TRUE, page |-> src]
                        ELSE stored
    /\ written' = IF platform = "QEMU" THEN NotWritten ELSE written

CacheNext ==
    \/ PagingInit
    \/ PagingRead
    \/ PagingAlloc
    \/ PagingWrite
    \/ PagingInvalidate
    \/ StoreThrough

CacheSpec == CacheInit /\ [][CacheNext]_vars

\* ------------------------------------- the MMU interface of earth on its own
\* The callers of the MMU interface (elf_load, the scheduler, the process
\* server) call mmu_alloc followed by mmu_map of the frame it returned,
\* mmu_switch to a process that has its page, and mmu_free, in any order;
\* the process whose pages are in the user window stores into it.
MmuPids == 1 .. NFRAMES
\* the process whose stores are followed
ProbePid == FirstSuch(MmuPids)
\* the processes that are dispatched; the others are loaded and freed only
Runners == {ProbePid, ProbePid + 1}
\* the processes that have their page mapped
Mapped == {pid \in MmuPids : FramesOf(Cur, pid) # {}}
\* the pages a process stores: one non-zero page stands for all of them
MmuStores == {q \in SrcPages : \A k \in MsgIdx : q.content[k] = FirstSuch(Bytes)}
\* mmu_alloc returned a frame that its caller has not mapped yet
Allocated == last.op = "mmu_alloc" /\ halt = "run"

MmuInit ==
    /\ platform \in {"QEMU", "ARTY"}
    /\ run = "mmu"
    /\ relock \in {"block", "pass"}
    /\ (platform = "QEMU" => relock = "block")
    /\ booted = FALSE
    /\ halt = "run"
    /\ proc_set = [i \in Idx |-> ZeroProcess]
    /\ proc_curr_idx = 0
    /\ proc_nprocs = 0
    /\ table = [f \in Frames |-> ZeroMapping]
    /\ cache_slots = [j \in Slots |-> -1]
    /\ dirty_pages = [j \in Slots |-> FALSE]
    /\ cache_mem = [j \in Slots |-> ZeroPage]
    /\ disk = [f \in Frames |-> ZeroPage]
    /\ window = ZeroPage
    /\ curr_vm_pid = -1
    /\ cache_lock = FALSE
    /\ msip = 0
    /\ csr_mepc = NULL_CTX
    /\ cpu_sp = NULL_CTX
    /\ upc = [i \in Idx |-> "user"]
    /\ sent = [i \in Idx |-> ZeroContent]
    /\ pend = [i \in Idx |-> "no"]
    /\ expect = [i \in Idx |-> NoMsg]
    /\ waited = [i \in Idx |-> 0]
    /\ ncalls = 0
    /\ nfrees = 0
    /\ written = NotWritten
    /\ stored = NotWritten
    /\ pt = SoftTlbTables
    /\ last = NoOp

\* the next state is the state s of the MMU a call produced
MmuCommit(s, op, arg, path) ==
    /\ halt' = s.halt
    /\ table' = s.tbl
    /\ cache_slots' = s.slots
    /\ dirty_pages' = s.dirty
    /\ cache_mem' = s.cmem
    /\ disk' = s.disk
    /\ window' = s.win
    /\ curr_vm_pid' = s.vmpid
    /\ cache_lock' = s.lock
    /\ last' = [NoOp EXCEPT !.op = op, !.arg = arg, !.path = path,
                            !.ret = IF op = "mmu_alloc" THEN s.ret ELSE 0]
    /\ UNCHANGED <<platform, run, relock, booted, proc_set, proc_curr_idx, proc_nprocs,
                   msip, csr_mepc, cpu_sp, upc, sent, pend, expect, waited, ncalls, nfrees,
                   stored, pt>>

\* rand() is called by mmu_alloc when the frame it takes needs a slot and
\* none is free
AllocRands == IF FreeFrames(Cur) = {} THEN {0} ELSE Rands(FirstSuch(FreeFrames(Cur)))

MmuAlloc ==
    /\ halt = "run" /\ ~Allocated
    /\ MmuPids \ Mapped # {} \/ FreeFrames(Cur) = {}
    /\ \E rnd \in AllocRands :
           MmuCommit(mmu_alloc(Cur, rnd), "mmu_alloc", 0,
                     IF FreeFrames(Cur) = {} THEN "full" ELSE "free")
    /\ UNCHANGED written

MmuMap ==
    /\ Allocated
    /\ \E pid \in MmuPids \ Mapped :
           MmuCommit(soft_tlb_map(Cur, pid, SYSCALL_PAGE, last.ret), "mmu_map", pid, "none")
    /\ UNCHANGED written

MmuSwitch ==
    /\ halt = "run" /\ ~Allocated
    /\ \E pid \in Mapped \cap Runners, o \in Oracles :
           MmuCommit(mmu_switch(Cur, pid, o), "mmu_switch", pid,
                     IF last.op = "mmu_switch" /\ last.arg = pid THEN "again" ELSE "none")
    /\ UNCHANGED written

MmuFree ==
    /\ halt = "run" /\ ~Allocated
    /\ \E pid \in Mapped :
           /\ MmuCommit(mmu_free(Cur, pid), "mmu_free", pid,
                        IF \E f \in FramesOf(Cur, pid) : SlotsOf(Cur, f) # {}
                        THEN "resident" ELSE "none")
           /\ written' = IF pid = ProbePid THEN NotWritten ELSE written

\* the process whose page is in the user window stores into it
UserStore ==
    /\ halt = "run" /\ ~Allocated
    /\ curr_vm_pid \in Mapped
    /\ \E src \in MmuStores :
           MmuCommit([Cur EXCEPT !.win = src], "store", 0, "none")
           /\ written' = IF curr_vm_pid = ProbePid THEN [set |-> TRUE, page |-> src]
                         ELSE written

MmuNext ==
    \/ MmuAlloc
    \/ MmuMap
    \/ MmuSwitch
    \/ MmuFree
    \/ UserStore

MmuSpec == MmuInit /\ [][MmuNext]_vars

\* --------------------------------------- the page tables of earth on their own
\* mmu_init() with page tables chosen, then the calls the loader makes: a
\* frame from mmu_alloc, mapped by page_table_map, page_table_switch, and the
\* mmu_free of the process server.
\* pids up to PT_NPIDS are used, the last of them one too large.

PtInit ==
    /\ platform = "QEMU"
    /\ run = "pagetable"
    /\ relock = "block"
    /\ booted = FALSE
    /\ halt = "run"
    /\ proc_set = [i \in Idx |-> ZeroProcess]
    /\ proc_curr_idx = 0
    /\ proc_nprocs = 0
    /\ table = [f \in PtFrames |-> ZeroMapping]
    /\ cache_slots = [j \in Slots |-> -1]
    /\ dirty_pages = [j \in Slots |-> FALSE]
    /\ cache_mem = [j \in Slots |-> ZeroPage]
    /\ disk = [f \in Frames |-> ZeroPage]
    /\ window = ZeroPage
    /\ curr_vm_pid = -1
    /\ cache_lock = FALSE
    /\ msip = 0
    /\ csr_mepc = NULL_CTX
    /\ cpu_sp = NULL_CTX
    /\ upc = [i \in Idx |-> "user"]
    /\ sent = [i \in Idx |-> ZeroContent]
    /\ pend = [i \in Idx |-> "no"]
    /\ expect = [i \in Idx |-> NoMsg]
    /\ waited = [i \in Idx |-> 0]
    /\ ncalls = 0
    /\ nfrees = 0
    /\ written = NotWritten
    /\ stored = NotWritten
    /\ pt \in {[NoTables EXCEPT !.rom = r] : r \in {"drop", "trap"}}
    /\ last = NoOp

\* the next state is the state s a call produced
PtCommit(s, op, arg, path) ==
    /\ booted' = TRUE
    /\ halt' = s.halt
    /\ table' = s.tbl
    /\ cache_slots' = s.slots
    /\ dirty_pages' = s.dirty
    /\ cache_mem' = s.cmem
    /\ cache_lock' = s.lock
    /\ pt' = s.pt
    /\ last' = [NoOp EXCEPT !.op = op, !.arg = arg, !.path = path,
                            !.ret = IF op = "mmu_alloc" THEN s.ret ELSE 0]
    /\ ncalls' = ncalls + (IF op = "mmu_alloc" THEN 1 ELSE 0)
    /\ nfrees' = nfrees + (IF op = "mmu_free" THEN 1 ELSE 0)
    /\ UNCHANGED <<platform, run, relock, proc_set, proc_curr_idx, proc_nprocs, disk,
                   window, curr_vm_pid, msip, csr_mepc, cpu_sp, upc, sent, pend, expect,
                   waited, written, stored>>

PtBoot ==
    /\ ~booted /\ halt = "run"
    /\ PtCommit(mmu_init(Cur), "mmu_init", 0, "none")

\* the loader takes a frame; pt.addr keeps the page mmu_alloc handed out
PtAlloc ==
    /\ booted /\ halt = "run" /\ last.op # "mmu_alloc" /\ ncalls < PT_MAXALLOCS
    /\ LET s == mmu_alloc(Cur, 0)
       IN  PtCommit(IF Running(s)
                    THEN [s EXCEPT !.pt.addr[s.ret] = SlotPage(s.cached_addr)]
                    ELSE s,
                    "mmu_alloc", 0, "none")

\* the loader maps the frame it took; pt.req keeps the arguments
PtMap ==
    /\ booted /\ halt = "run" /\ last.op = "mmu_alloc"
    /\ \E pid \in 1 .. PT_NPIDS, page_no \in PageNos :
           PtCommit(page_table_map([Cur EXCEPT !.pt.req = [pid |-> pid, page_no |-> page_no,
                                                           frame_id |-> last.ret]],
                                   pid, page_no, last.ret),
                    "page_table_map", pid,
                    IF pid \in PtPids /\ pt.base[pid] # 0 THEN "has_root" ELSE "no_root")

PtSwitch ==
    /\ booted /\ halt = "run" /\ last.op # "mmu_alloc"
    /\ \E pid \in 0 .. PT_NPIDS :
           PtCommit(page_table_switch(Cur, pid), "page_table_switch", pid, "none")

\* the process server frees the frames of a process; the page tables and
\* satp stay as they are
PtFree ==
    /\ booted /\ halt = "run" /\ last.op # "mmu_alloc" /\ nfrees < PT_MAXFREES
    /\ \E pid \in 0 .. PT_NPIDS :
           PtCommit(mmu_free(Cur, pid), "mmu_free", pid, "none")

PtNext == PtBoot \/ PtAlloc \/ PtMap \/ PtSwitch \/ PtFree
PtSpec == PtInit /\ [][PtNext]_vars

\* ------------------------------------------------------------------ claims
RunningEntries == {i \in Idx : proc_set[i].status = PROC_RUNNING}

\* C1: in every reachable state at most one entry of proc_set has status
\* PROC_RUNNING.
C1_AtMostOneRunning == Cardinality(RunningEntries) <= 1

\* C2: an entry that blocked in proc_send stays PROC_WAIT_TO_SEND until its
\* message was copied to its receiver; in particular proc_yield does not make
\* it the current, running process before that.
C2_NoMessageLost ==
    \A i \in Idx : pend[i] = "waits" =>
                     /\ proc_set[i].status = PROC_WAIT_TO_SEND
                     /\ (halt = "run" => proc_curr_idx # i)

\* the receiver of a completed rendezvous is back in user code
Resumed(i) == /\ last.op = "ret_recv"
              /\ proc_curr_idx = i
              /\ cpu_sp = i
              /\ expect[i] # NoMsg

\* C3: when the receiver of a completed rendezvous resumes, its syscall slot
\* holds the pid of the sender and the content the sender placed in its slot.
C3_DeliveredIntact ==
    \A i \in Idx : Resumed(i) => /\ window.sender = expect[i].sender
                                 /\ window.content = expect[i].content

\* C4: send first.  A send to a receiver that is not PROC_WAIT_TO_RECV leaves
\* the sender PROC_WAIT_TO_SEND with receiver_pid the receiver; the recv that
\* finds it makes the sender runnable (running, if it is dispatched at once);
\* the receiver resumes with the sender and its content in its slot.
C4_SendFirst ==
    /\ (halt = "run" /\ last.path = "send_waits") =>
           /\ proc_set[last.who].status = PROC_WAIT_TO_SEND
           /\ proc_set[last.who].receiver_pid = proc_set[last.peer].pid
    /\ (halt = "run" /\ last.path = "recv_copies") =>
           \/ proc_set[last.peer].status = PROC_RUNNABLE
           \/ proc_set[last.peer].status = PROC_RUNNING /\ proc_curr_idx = last.peer
    /\ \A i \in Idx : (Resumed(i) /\ expect[i].first = "send") =>
           /\ window.sender = expect[i].sender
           /\ window.content = expect[i].content

\* C5: receive first.  A recv that finds no waiting sender leaves the caller
\* PROC_WAIT_TO_RECV; the send that finds it copies the message, makes the
\* receiver runnable and leaves the sender schedulable; the receiver resumes
\* with the message and the send returns 0.
C5_RecvFirst ==
    /\ (halt = "run" /\ last.path = "recv_waits") =>
           proc_set[last.who].status = PROC_WAIT_TO_RECV
    /\ (halt = "run" /\ last.path = "send_copies") =>
           /\ \/ proc_set[last.peer].status = PROC_RUNNABLE
              \/ proc_set[last.peer].status = PROC_RUNNING /\ proc_curr_idx = last.peer
           /\ Schedulable(proc_set[last.who].status)
    /\ \A i \in Idx : (Resumed(i) /\ expect[i].first = "recv") =>
           /\ window.sender = expect[i].sender
           /\ window.content = expect[i].content
    /\ (last.op = "ret_send" /\ cpu_sp = proc_curr_idx /\ pend[proc_curr_idx] = "copied")
           => last.ret = 0

\* C6: an entry that stays PROC_READY or PROC_RUNNABLE becomes the current
\* process within MAX_NPROCESS consecutive proc_yield calls: it never sits
\* through more than MAX_NPROCESS - 1 of them.
C6_NoStarvation == \A i \in Idx : waited[i] <= MAX_NPROCESS - 1

\* an entry sat through a proc_yield call while it was ready to run
C6_Witness == \E i \in Idx : /\ waited[i] >= 1
                             /\ proc_set[i].status \in {PROC_READY, PROC_RUNNABLE}

\* C7: right after boot exactly one entry is PROC_RUNNING, it carries pid
\* GPID_PROCESS, and every other entry is PROC_UNUSED.
C7_BootState ==
    last.op = "main" =>
        \E i \in Idx : /\ proc_set[i].pid = GPID_PROCESS
                       /\ proc_set[i].status = PROC_RUNNING
                       /\ \A j \in Idx \ {i} : proc_set[j].status = PROC_UNUSED

\* C8: a send to a pid that no entry carries stores -1 as the return value,
\* calls proc_yield not once, leaves proc_curr_idx and the status of the
\* caller as they were, and the caller returns from sys_send at once with -1.
C8_AbsentReceiver ==
    [][ /\ last'.path = "absent" =>
              /\ window'.retval = -1
              /\ last'.yields = 0
              /\ proc_curr_idx' = proc_curr_idx
              /\ proc_set'[proc_curr_idx].status = proc_set[proc_curr_idx].status
              /\ halt' = "run" /\ msip' = 0 /\ window'.type = SYS_UNUSED
        /\ (last.path = "absent" /\ last'.op = "ret_send") => last'.ret = -1 ]_vars

C8_Witness == last.path = "absent" /\ last.op = "soft" /\ window.retval = -1

\* C9: sys_send with SYSCALL_MSG_LEN bytes issues the system call (it fills the
\* slot and goes on to sys_invoke, which raises the software interrupt);
\* sys_send and sys_recv with SYSCALL_MSG_LEN + 1 bytes return -1, leave the
\* syscall slot as it was and raise no software interrupt.
C9_LengthBoundary ==
    [][ /\ (last'.op = "sys_send" /\ last'.arg = SYSCALL_MSG_LEN) =>
              /\ last'.ret = 0
              /\ upc'[cpu_sp] = "invoke_send"
              /\ window'.type = SYS_SEND
        /\ last'.op = "sys_invoke" => msip' = 1
        /\ (last'.op \in {"sys_send", "sys_recv"} /\ last'.arg = SYSCALL_MSG_LEN + 1) =>
              /\ last'.ret = -1
              /\ window' = window
              /\ msip' = msip
              /\ upc' = upc
              /\ proc_set' = proc_set /\ proc_curr_idx' = proc_curr_idx ]_vars

C9_Witness == /\ last.op = "sys_send" /\ last.arg = SYSCALL_MSG_LEN + 1 /\ last.ret = -1
              /\ window.content # ZeroContent

\* C10: a timer interrupt taken while curr_pid < GPID_SHELL resets the timer
\* and nothing else: proc_set, proc_curr_idx and the pid of the address space
\* in view are unchanged and proc_yield is not called.
C10_ServersNotPreempted ==
    [][ (last'.op = "timer" /\ proc_set[proc_curr_idx].pid < GPID_SHELL) =>
              /\ last'.treset
              /\ last'.yields = 0
              /\ proc_set' = proc_set
              /\ proc_curr_idx' = proc_curr_idx
              /\ curr_vm_pid' = curr_vm_pid ]_vars

C10_Witness == /\ last.op = "timer" /\ last.treset /\ last.yields = 0
               /\ proc_set[proc_curr_idx].pid < GPID_SHELL
               /\ \E i \in Idx \ {proc_curr_idx} :
                      proc_set[i].status \in {PROC_READY, PROC_RUNNABLE}

\* C11: an exception that is no environment call, raised while a user
\* application (curr_pid >= GPID_USER_START) executes, is no kernel fatal: the
\* handler returns with mepc at the exit trampoline.
C11_UserFaultTerminates ==
    [][ (/\ last'.op = "excp"
         /\ last'.arg \notin {EXCP_ID_ECALL_U, EXCP_ID_ECALL_M}
         /\ cpu_sp \in Idx
         /\ proc_set[proc_curr_idx].pid >= GPID_USER_START) =>
              /\ halt' = "run"
              /\ csr_mepc' = EXIT_TRAMPOLINE ]_vars

\* C12: an interrupt redirects the current process to the exit trampoline
\* exactly when tty_recv_intr() signals ctrl-C and curr_pid >= GPID_USER_START;
\* the redirection sets mepc, changes no entry of proc_set and calls proc_yield
\* not once; a server or the shell is never redirected.
C12_CtrlCKillsUserOnly ==
    [][ last'.op \in {"timer", "soft"} =>
          /\ last'.kill <=> (last'.tty /\ proc_set[proc_curr_idx].pid >= GPID_USER_START)
          /\ last'.kill => /\ csr_mepc' = EXIT_TRAMPOLINE
                           /\ halt' = "run"
                           /\ proc_set' = proc_set
                           /\ proc_curr_idx' = proc_curr_idx
                           /\ last'.yields = 0
          /\ (proc_set[proc_curr_idx].pid < GPID_USER_START /\ last'.yields = 0) =>
                 (csr_mepc' = EXIT_TRAMPOLINE => csr_mepc = EXIT_TRAMPOLINE) ]_vars

\* ctrl-C arrived while a user application was current, other entries alive
C12_Witness == /\ last.op \in {"timer", "soft"} /\ last.tty /\ last.kill
               /\ csr_mepc = EXIT_TRAMPOLINE
               /\ proc_set[proc_curr_idx].pid >= GPID_USER_START

\* C13: proc_syscall resets the pending flag and the type tag before it
\* dispatches (the tag is SYS_UNUSED in the slot in view when the handler
\* returns to the caller without a yield), and a process that executes in the
\* wait of sys_invoke after its send or recv was dispatched finds SYS_UNUSED in
\* its slot, so that it leaves the wait and raises the request not again.
C13_TagReset ==
    /\ (last.op = "soft" /\ ~last.kill /\ halt = "run") => msip = 0
    /\ (last.op = "soft" /\ ~last.kill /\ halt = "run" /\ last.yields = 0) =>
           window.type = SYS_UNUSED
    /\ (halt = "run" /\ cpu_sp \in Idx /\ msip = 0 /\ upc[cpu_sp] \in {"send", "recv"}) =>
           window.type = SYS_UNUSED

\* C14: paging_read(f, 0) after paging_write(f, src), with calls for other
\* frames in between and no paging_invalidate_cache(f), returns the address of
\* a page that holds src.
C14_ReadAfterWrite ==
    (last.op = "paging_read" /\ last.arg = ProbeFrame /\ halt = "run" /\ written.set) =>
        cache_mem[last.ret] = written.page

\* C15: a slot that holds a frame and whose dirty bit is clear holds the page
\* the disk holds for that frame.
C15_CleanEqualsDisk ==
    \A j \in Slots : (cache_slots[j] # -1 /\ ~dirty_pages[j]) =>
                         cache_mem[j] = disk[cache_slots[j]]

\* C16: a frame is in at most one entry of cache_slots.
C16_OneSlotPerFrame ==
    \A f \in Frames : Cardinality({j \in Slots : cache_slots[j] = f}) <= 1

\* a call has evicted a frame from a cache whose slots were all taken, and has
\* put its frame in its place
C16_Witness == /\ last.op \in {"paging_read", "paging_alloc", "paging_write"}
               /\ halt = "run"
               /\ last.dwrites = 1
               /\ \A j \in Slots : cache_slots[j] # -1
               /\ \E j \in Slots : cache_slots[j] = last.arg

\* C17: paging_read(f, 0) right after paging_invalidate_cache(f) returns the
\* address of a page that holds what the disk holds for f.
C17_ReadAfterInvalidate ==
    [][ (/\ last.op = "paging_invalidate"
         /\ last'.op = "paging_read"
         /\ last'.arg = last.arg
         /\ halt' = "run") => cache_mem'[last'.ret] = disk'[last'.arg] ]_vars

\* C18: paging_invalidate_cache(f) leaves the disk, the pages of the cache, the
\* dirty bits and every slot that holds another frame as they were, and no
\* slot holds f after it: a second call changes nothing.
C18_InvalidateFrame ==
    [][ last'.op = "paging_invalidate" =>
          /\ disk' = disk
          /\ cache_mem' = cache_mem
          /\ dirty_pages' = dirty_pages
          /\ halt' = halt /\ cache_lock' = cache_lock
          /\ \A j \in Slots : cache_slots[j] # last'.arg => cache_slots'[j] = cache_slots[j]
          /\ paging_invalidate_cache([Cur EXCEPT !.slots = cache_slots'], last'.arg).slots
                 = cache_slots' ]_vars

\* a frame that was in the cache with changes not on disk was invalidated
C18_Witness == /\ last.op = "paging_invalidate" /\ last.dropped = 1
               /\ \E j \in Slots : cache_slots[j] # -1 /\ cache_slots[j] # last.arg

\* the frame a call has put out of slot j to make room
EvictedFrom(j) == /\ cache_slots[j] # -1
                  /\ cache_slots'[j] # -1
                  /\ cache_slots'[j] # cache_slots[j]

\* C19: paging_write of a frame that is not in a cache whose slots are all
\* taken and dirty returns, has evicted one slot with one disk write, of the
\* page of the evicted frame to the place of that frame, and has left the
\* slot holding the written frame with its dirty bit set; an eviction of a
\* dirty slot makes one disk write, an eviction of a clean slot none.
C19_EvictionWritesBack ==
    [][ /\ (/\ last'.op = "paging_write"
            /\ \A j \in Slots : cache_slots[j] \notin {-1, last'.arg} /\ dirty_pages[j]) =>
               /\ halt' = "run"
               /\ last'.dwrites = 1
               /\ \E j \in Slots :
                      /\ cache_slots'[j] = last'.arg /\ dirty_pages'[j]
                      /\ \A k \in Slots \ {j} : /\ cache_slots'[k] = cache_slots[k]
                                                 /\ dirty_pages'[k] = dirty_pages[k]
                      /\ disk' = [disk EXCEPT ![cache_slots[j]] = cache_mem[j]]
        /\ (last'.op \in {"paging_read", "paging_alloc", "paging_write"} /\ halt' = "run") =>
               \A j \in Slots : EvictedFrom(j) =>
                                   last'.dwrites = (IF dirty_pages[j] THEN 1 ELSE 0) ]_vars

\* C20: no call of paging_read or paging_write blocks on cache_lock for ever.
C20_NoCallBlocks == halt # "hung"

\* C21: after mmu_free(pid) no frame is recorded as owned by pid, and at any
\* time no frame whose mapping record is clear (use = 0) is held by a slot of
\* the frame cache.
C21_FreedNotResident ==
    /\ \A f \in Frames : table[f].use = 0 => SlotsOf(Cur, f) = {}
    /\ (last.op = "mmu_free" /\ halt = "run") => FramesOf(Cur, last.arg) = {}

\* mmu_free has freed a frame that the cache held
C21_Witness == /\ last.op = "mmu_free" /\ last.path = "resident" /\ halt = "run"
               /\ \E f \in Frames : table[f].use = 0
               /\ \E j \in Slots : cache_slots[j] # -1

\* C22: a call of mmu_alloc that returns hands out the free frame of the
\* lowest index and sets the in-use flag of that frame and of no other; with
\* every frame in use it is fatal and changes no mapping record.
C22_LowestFreeFrame ==
    [][last'.op = "mmu_alloc" =>
         IF FreeFrames(Cur) = {}
         THEN halt' = "fatal" /\ table' = table
         ELSE halt' = "run" =>
                  /\ last'.ret = FirstSuch(FreeFrames(Cur))
                  /\ table' = [table EXCEPT ![FirstSuch(FreeFrames(Cur))].use = 1]]_vars

\* mmu_alloc was called with every frame in use, after it handed out each frame
C22_Witness == /\ last.op = "mmu_alloc" /\ last.path = "full" /\ halt = "fatal"
               /\ \A f \in Frames : table[f].use = 1 /\ table[f].pid \in MmuPids

\* C23: when the software TLB has switched to a process, the user window
\* holds the bytes that the process stored last in its page, whatever other
\* processes were switched in and stored in between.
C23_TlbRoundTrip ==
    (last.op = "mmu_switch" /\ last.arg = ProbePid /\ halt = "run" /\ written.set)
        => window = written.page

\* C24: mmu_switch(pid) called right after mmu_switch(pid) returned changes
\* nothing: not the user window, not the frame cache (slots, dirty bits,
\* pages), not the disk, not the current VM pid, and it does not touch the
\* mutex.
C24_SwitchTwice ==
    [][(/\ last.op = "mmu_switch" /\ halt = "run"
        /\ last'.op = "mmu_switch" /\ last'.arg = last.arg)
       => /\ window' = window
          /\ cache_slots' = cache_slots
          /\ dirty_pages' = dirty_pages
          /\ cache_mem' = cache_mem
          /\ disk' = disk
          /\ curr_vm_pid' = curr_vm_pid /\ curr_vm_pid = last.arg
          /\ cache_lock' = cache_lock
          /\ halt' = halt]_vars

\* mmu_switch was called twice in a row for a process whose page holds what it stored
C24_Witness == /\ last.op = "mmu_switch" /\ last.path = "again" /\ halt = "run"
               /\ curr_vm_pid = last.arg
               /\ window \in MmuStores

\* C27: proc_alloc called with no UNUSED entry is fatal and alters no entry;
\* otherwise it changes only the UNUSED entry of the lowest index, which becomes
\* LOADING with a pid that no entry in use carries, and it returns that pid.
C27_ProcAlloc ==
    [][last'.op = "proc_alloc" =>
         IF UnusedEntries(Cur) = {}
         THEN halt' = "fatal" /\ proc_set' = proc_set
         ELSE /\ halt' = "run"
              /\ \A j \in Idx \ UnusedEntries(Cur) : proc_set[j].pid # last'.ret
              /\ proc_set' = [proc_set EXCEPT
                                 ![FirstSuch(UnusedEntries(Cur))].pid = last'.ret,
                                 ![FirstSuch(UnusedEntries(Cur))].status = PROC_LOADING]]_vars

\* proc_alloc was called with every entry taken by a process of its own
C27_Witness == /\ last.op = "proc_alloc" /\ halt = "fatal"
               /\ \A i \in Idx : proc_set[i].status # PROC_UNUSED
               /\ \A i, j \in Idx : i # j => proc_set[i].pid # proc_set[j].pid

\* C28: the counter of proc_alloc never decreases and lies above every pid an
\* entry carries; the pid a proc_alloc call returns is not below the counter
\* before the call and is below the counter after it.  So each pid returned is
\* greater than every pid returned before, and none is handed out twice.
C28_PidsIncrease ==
    [][/\ proc_nprocs' >= proc_nprocs
       /\ \A i \in Idx : proc_set'[i].pid < proc_nprocs' \/ ~booted'
       /\ (last'.op = "proc_alloc" /\ halt' = "run")
              => /\ last'.ret >= proc_nprocs
                 /\ last'.ret < proc_nprocs'
                 /\ \A i \in Idx : proc_set[i].pid < last'.ret]_vars

\* proc_alloc handed out more pids than there are entries: entries were freed
\* and taken again
C28_Witness == /\ last.op = "proc_alloc" /\ halt = "run" /\ nfrees >= 2
               /\ last.ret > MAX_NPROCESS
               /\ \E i \in Idx : proc_set[i].pid = last.ret /\ proc_set[i].status = PROC_LOADING

\* C29: with the processes of pid 2 and pid 3 both runnable, each of them is
\* dispatched within three timer interrupts: no three timer interrupts in a
\* row leave one of them current while the other one is ready to run.
C29_RoundRobin ==
    (/\ last.op = "timer" /\ halt = "run" /\ last.nth >= 3
     /\ curr_pid(Cur) \in {2, 3} /\ curr_status(Cur) = PROC_RUNNING)
        => ~\E i \in Idx : /\ proc_set[i].pid \in {2, 3} \ {curr_pid(Cur)}
                           /\ proc_set[i].status \in {PROC_READY, PROC_RUNNABLE}

\* the entry a scan from the entry after proc_curr_idx, the current entry
\* last, finds first among those the statuses st make schedulable
ScanFirst(next, st) ==
    /\ Schedulable(st[next])
    /\ \A i \in 1 .. MAX_NPROCESS :
           (proc_curr_idx + i) % MAX_NPROCESS = next =>
               \A k \in 1 .. (i - 1) : ~Schedulable(st[(proc_curr_idx + k) % MAX_NPROCESS])

\* C30: proc_yield dispatches the first entry of the scan from proc_curr_idx + 1
\* (the current entry last) that is READY, RUNNING or RUNNABLE and is fatal
\* when there is none; an outgoing entry that was RUNNING becomes RUNNABLE, one
\* that blocked in a send or a receive keeps WAIT_TO_SEND or WAIT_TO_RECV, and
\* the entry at proc_curr_idx is RUNNING when proc_yield is done.
C30_ProcYield ==
    [][/\ (last'.op = "timer" /\ last'.yields = 1 /\ halt' = "run")
           => /\ ScanFirst(proc_curr_idx', [i \in Idx |-> proc_set[i].status])
              /\ (proc_set[proc_curr_idx].status = PROC_RUNNING /\ proc_curr_idx' # proc_curr_idx)
                     => proc_set'[proc_curr_idx].status = PROC_RUNNABLE
       /\ (last'.yields >= 1 /\ halt' = "fatal")
           => \A i \in Idx : ~Schedulable(proc_set'[i].status)
       /\ (last'.yields >= 1 /\ halt' = "run")
           => proc_set'[proc_curr_idx'].status = PROC_RUNNING
       /\ (last'.path = "send_waits" /\ halt' = "run")
           => proc_set'[last'.who].status = PROC_WAIT_TO_SEND
       /\ (last'.path = "recv_waits" /\ halt' = "run")
           => proc_set'[last'.who].status = PROC_WAIT_TO_RECV]_vars

\* the entry the walk of the tables of pid finds for page_no: the root entry
\* indexed by VPN1 is decoded as page_table_map decodes it, and 0 stands for
\* "no valid root entry"
LeafEntry(pid, page_no) ==
    LET e1 == pt.mem[pt.base[pid]][page_no \div PT_ENTRIES]
    IN  IF e1 % 2 = 0 \/ PtePage(e1) \notin PhysPages THEN 0
        ELSE pt.mem[PtePage(e1)][page_no % PT_ENTRIES]

\* C25: after page_table_map(pid, page_no, f) with pid below the limit has
\* returned, the leaf entry of pid indexed by VPN1 and VPN0 of page_no carries
\* the flags USER_RWX and the page number of the memory mmu_alloc handed out
\* for frame f.
C25_LeafEntry ==
    (last.op = "page_table_map" /\ halt = "run") =>
        /\ LeafEntry(pt.req.pid, pt.req.page_no) % PTE_PPN_UNIT = USER_RWX
        /\ PtePage(LeafEntry(pt.req.pid, pt.req.page_no)) = pt.addr[pt.req.frame_id]

\* C26: once mmu_init or page_table_map has returned, for every pid that has
\* a root, every page of the identity region that is not the page of the last
\* user mapping walks to its own page number with the flags OS_RWX, which
\* have no U bit.
C26_IdentityInRoot ==
    \A pid \in PtPids :
        (halt = "run" /\ pt.base[pid] # 0) =>
            \A a \in IdentityPages :
                (last.op = "page_table_map" /\ pt.req.page_no = a)
                \/ LeafEntry(pid, a) = Pte(a, OS_RWX)

\* C31: a proc_recv that finds several entries PROC_WAIT_TO_SEND for the
\* caller completes one rendezvous: it takes the entry of the lowest index,
\* copies the sender and the content that entry placed in its slot, makes
\* that entry runnable (running, if it is dispatched at once) and no
\* other, and leaves every other waiting sender PROC_WAIT_TO_SEND with its
\* receiver_pid.
C31_FirstSenderWins ==
    [][(last'.path = "recv_copies" /\ halt' = "run" /\ Cardinality(WaitingSenders(Cur)) >= 2) =>
           /\ last'.peer = FirstSuch(WaitingSenders(Cur))
           /\ last'.tmp.sender = proc_set[last'.peer].pid
           /\ last'.tmp.content = sent[last'.peer]
           /\ \/ proc_set'[last'.peer].status = PROC_RUNNABLE
              \/ proc_set'[last'.peer].status = PROC_RUNNING /\ proc_curr_idx' = last'.peer
           /\ \A j \in WaitingSenders(Cur) \ {last'.peer} :
                  /\ proc_set'[j].status = PROC_WAIT_TO_SEND
                  /\ proc_set'[j].receiver_pid = proc_set[j].receiver_pid
           /\ \A j \in Idx \ {last'.peer, proc_curr_idx} :
                  proc_set'[j].status = PROC_RUNNABLE => proc_set[j].status = PROC_RUNNABLE]_vars

\* C32: in every state of a system that has not halted, the receiver_pid of
\* an entry that is PROC_WAIT_TO_SEND is the pid of an entry that is not
\* PROC_UNUSED.
C32_ValidReceiver ==
    \A i \in Idx :
        (halt = "run" /\ proc_set[i].status = PROC_WAIT_TO_SEND) =>
            \E j \in Idx : /\ proc_set[j].pid = proc_set[i].receiver_pid
                           /\ proc_set[j].status # PROC_UNUSED

\* the step is a trap whose handler calls proc_yield or proc_syscall
Dispatches ==
    \/ last'.op = "soft" /\ ~last'.kill
    \/ last'.op = "timer" /\ ~last'.kill /\ curr_pid(Cur) >= GPID_SHELL
    \/ last'.op = "excp" /\ last'.arg = EXCP_ID_ECALL_U /\ curr_pid(Cur) >= GPID_USER_START

\* C33: a trap that calls the scheduler or the system call dispatcher saves
\* the stack pointer and the trap PC of the interrupted process in its own
\* PCB entry, and when it returns the CPU has the stack pointer and the PC
\* saved in the entry of the process that is then current (or enters a
\* process that runs for the first time at APPS_ENTRY on its own stack).
C33_ContextSwitch ==
    [][Dispatches =>
           /\ proc_set'[proc_curr_idx].sp = cpu_sp
           /\ proc_set'[proc_curr_idx].mepc = TrapPC(Cur)
           /\ halt' = "run" =>
                  \/ /\ cpu_sp' = proc_set'[proc_curr_idx'].sp
                     /\ csr_mepc' = proc_set'[proc_curr_idx'].mepc
                  \/ /\ cpu_sp' = proc_curr_idx'
                     /\ csr_mepc' = APPS_ENTRY]_vars

\* the entries in use that carry pid
LiveEntries(pid) == {i \in Idx : proc_set[i].pid = pid /\ proc_set[i].status # PROC_UNUSED}

\* C34: proc_free(pid) with pid # -1 leaves pid without frames, leaves the
\* frames of the other pids alone and changes one PCB entry, the entry of pid,
\* which becomes PROC_UNUSED.  proc_free(-1) does this for every entry in use
\* whose pid is GPID_USER_START or more, and changes no other entry and no
\* frame of a pid below GPID_USER_START.
C34_ProcFree ==
    [][(last'.op = "proc_free" /\ halt' = "run") =>
           IF last'.arg # -1
           THEN /\ \A f \in Frames : IF table[f].use # 0 /\ table[f].pid = last'.arg
                                     THEN table'[f].use = 0
                                     ELSE table'[f] = table[f]
                /\ \A i \in Idx :
                       proc_set'[i] = IF i = FirstSuch(LiveEntries(last'.arg))
                                      THEN [proc_set[i] EXCEPT !.status = PROC_UNUSED]
                                      ELSE proc_set[i]
           ELSE /\ \A f \in Frames :
                       IF table[f].use # 0 /\ LiveEntries(table[f].pid) # {}
                          /\ table[f].pid >= GPID_USER_START
                       THEN table'[f].use = 0
                       ELSE table'[f] = table[f]
                /\ \A i \in Idx :
                       proc_set'[i] = IF proc_set[i].pid >= GPID_USER_START
                                         /\ proc_set[i].status # PROC_UNUSED
                                      THEN [proc_set[i] EXCEPT !.status = PROC_UNUSED]
                                      ELSE proc_set[i]]_vars

\* C35: when a handler that returns control to a process has run (main at
\* boot, a trap that called proc_yield, or a trap whose proc_send or proc_recv
\* switched address spaces for the copy), the pid last passed to mmu_switch
\* is the pid of the entry at proc_curr_idx.
C35_AddressSpaceInView ==
    [][(halt' = "run" /\ (last'.op = "main" \/ last'.yields > 0
                          \/ last'.path \in {"send_copies", "recv_copies"})) =>
           curr_vm_pid' = proc_set'[proc_curr_idx'].pid]_vars

\* some entry waits to send to a pid that an entry waiting to receive carries
LostWakeup ==
    \E a, b \in Idx : /\ proc_set[a].status = PROC_WAIT_TO_SEND
                      /\ proc_set[b].status = PROC_WAIT_TO_RECV
                      /\ proc_set[b].pid = proc_set[a].receiver_pid

\* C36: no step leads to a state where an entry is PROC_WAIT_TO_SEND for the
\* pid of an entry that is PROC_WAIT_TO_RECV; a proc_send blocks only when no
\* entry of the receiver's pid was PROC_WAIT_TO_RECV, and a proc_recv blocks
\* only when no entry was PROC_WAIT_TO_SEND for the caller.
C36_NoLostWakeup ==
    [][/\ ~LostWakeup'
       /\ last'.path = "send_waits" =>
              \A b \in Idx : proc_set[b].pid = window.receiver =>
                                 proc_set[b].status # PROC_WAIT_TO_RECV
       /\ last'.path = "recv_waits" => WaitingSenders(Cur) = {}]_vars

\* a proc_recv has blocked while an entry waits to send to another pid
C36_Witness ==
    /\ halt = "run"
    /\ last.path = "recv_waits"
    /\ \E a, b \in Idx : /\ proc_set[a].status = PROC_WAIT_TO_SEND
                         /\ proc_set[b].status = PROC_WAIT_TO_RECV
                         /\ a # b

\* C37: a paging_read(f, 0) returns the page that was stored through the
\* address paging_read(f, 1) returned, whatever calls for other frames
\* (evictions of the slot of f among them) were made in between, as long as f
\* was not written, invalidated or allocated anew.
C37_StoredSurvives ==
    (last.op = "paging_read" /\ last.arg = ProbeFrame /\ halt = "run" /\ stored.set) =>
        cache_mem[last.ret] = stored.page

\* pid is the pid of a process that has exited: entries carry it, and each of
\* them is PROC_UNUSED (after boot only proc_free makes an entry PROC_UNUSED)
Exited(pid) ==
    /\ booted
    /\ \E i \in Idx : proc_set[i].pid = pid
    /\ \A i \in Idx : proc_set[i].pid = pid => proc_set[i].status = PROC_UNUSED

\* C38: a proc_send of a running process whose receiver is the pid of a
\* process that has exited takes the branch of the absent receiver: the return value stored is -1,
\* and the sender is not made PROC_WAIT_TO_SEND.
C38_SendToExited ==
    [][(/\ last'.path \in {"absent", "send_waits", "send_copies"}
        /\ Exited(window.receiver)
        /\ proc_set[proc_curr_idx].status = PROC_RUNNING) =>
           /\ last'.path = "absent"
           /\ window'.retval = -1
           /\ proc_set'[proc_curr_idx].status # PROC_WAIT_TO_SEND]_vars

\* the entries whose status the step changes
StatusChanged == {j \in Idx : proc_set'[j].status # proc_set[j].status}

\* C39: main (proc_set_running of the pid proc_alloc returned), proc_set_ready
\* and proc_free(pid), called with the pid of an entry that is in use, change
\* the status of at most one entry, an entry of that pid; and once the system
\* has booted the pid of every entry in use is carried by that entry alone.
C39_OneEntryPerPid ==
    [][/\ (last'.op \in {"proc_set_ready", "proc_free"} /\ last'.arg # -1
           /\ LiveEntries(last'.arg) # {}) =>
              /\ Cardinality(StatusChanged) <= 1
              /\ StatusChanged \subseteq LiveEntries(last'.arg)
       /\ last'.op = "main" => Cardinality(StatusChanged) = 1
       /\ booted' => \A i \in Idx :
              proc_set'[i].status # PROC_UNUSED =>
                  \A j \in Idx \ {i} : proc_set'[j].pid # proc_set'[i].pid]_vars

\* C40: on QEMU, a paging_read of one frame that follows a paging_read of
\* another frame returns another slot, and a paging_write of one frame that
\* follows a paging_read of another frame leaves the page of the slot that
\* paging_read returned as it was.
C40_NoAliasing ==
    [][(/\ platform = "QEMU" /\ halt' = "run"
        /\ last.op \in {"paging_read", "paging_alloc"}
        /\ last'.arg # last.arg) =>
           /\ last'.op \in {"paging_read", "paging_alloc"} => last'.ret # last.ret
           /\ last'.op = "paging_write" => cache_mem'[last.ret] = cache_mem[last.ret]]_vars

====
